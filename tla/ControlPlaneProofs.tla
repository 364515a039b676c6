------------------------- MODULE ControlPlaneProofs -------------------------
(***************************************************************************)
(* Theorems about ControlPlane, for any number of clients, any requests    *)
(* and any injector.                                                       *)
(*                                                                         *)
(* ControlInv says what can be left of each request (RouteOK): in          *)
(* particular that a profile which limits bandwidth is only written when   *)
(* the measurement has a result, and that whoever measures is alone.       *)
(***************************************************************************)
EXTENDS ControlPlane, InjectorProofs, FiniteSetTheorems, SequenceTheorems

(* The sections that a request of each kind can have left; x is the speed  *)
(* or the budget it gave.                                                  *)
StatusLeft == {<<>>, <<"answer">>, <<"spare", "answer">>, <<"list", "spare", "answer">>}

SectorLeft(x) ==
  {<<>>, <<"answer">>, <<"add", "answer">>}
    \cup (IF x # Unset THEN {<<"setSpare", "add", "answer">>} ELSE {})

SpeedLeft(x) == {<<>>, <<"answer">>} \cup (IF x # Unset THEN {<<"speed", "answer">>} ELSE {})

ProfileLeft(x) == {IF x # Unset THEN <<"profile", "speed", "answer">> ELSE <<"profile", "answer">>}

CalibrateLeft(x) ==
  {IF x # Unset THEN <<"calibrate", "profile", "speed", "answer">>
                ELSE <<"calibrate", "profile", "answer">>}

MeasureLeft(x) ==
  {IF x # Unset THEN <<"measure", "profile", "speed", "answer">>
                ELSE <<"measure", "profile", "answer">>}

Resolved == calib \in {"ok", "failed"}

(* What a set-latency request has left.                                    *)
LatencyOK(p, x, t) ==
  \/ t \in SpeedLeft(x)
  \/ t \in ProfileLeft(x) /\ p # Unset /\ (p \in Limited => Resolved)
  \/ t \in CalibrateLeft(x) /\ p \in Limited
  \/ t \in MeasureLeft(x) /\ p \in Limited /\ calib = "running"

(* What any request has left; without one there is nothing to do.         *)
RouteOK(c) ==
  LET r == request[c]
  IN  /\ r.cmd = "none" => todo[c] = <<>>
      /\ r.cmd = "status" => todo[c] \in StatusLeft
      /\ r.cmd = "badsector" => todo[c] \in SectorLeft(r.spare)
      /\ r.cmd = "set-latency" => LatencyOK(r.profile, r.speed, todo[c])

(* calibOnce lets in one request.                                          *)
AloneMeasuring == \A c, e \in Clients : At(c, "measure") /\ At(e, "measure") => c = e

ControlInv ==
  ControlTypeOK /\ (\A c \in Clients : RouteOK(c)) /\ AloneMeasuring /\ ClampedUnlessFailed

-----------------------------------------------------------------------------
(* Short sequences of steps                                                *)

LEMMA Shorten ==
  /\ \A a : <<a>> # <<>> /\ Head(<<a>>) = a /\ Tail(<<a>>) = <<>>
  /\ \A a, b : <<a, b>> # <<>> /\ Head(<<a, b>>) = a /\ Tail(<<a, b>>) = <<b>>
  /\ \A a, b, c : <<a, b, c>> # <<>> /\ Head(<<a, b, c>>) = a /\ Tail(<<a, b, c>>) = <<b, c>>
  /\ \A a, b, c, d : /\ <<a, b, c, d>> # <<>> /\ Head(<<a, b, c, d>>) = a
                     /\ Tail(<<a, b, c, d>>) = <<b, c, d>>
<1>1. \A a : <<a>> # <<>> /\ Head(<<a>>) = a
  OBVIOUS
<1>2. \A a, b : <<a, b>> # <<>> /\ Head(<<a, b>>) = a
  OBVIOUS
<1>3. \A a, b, c : <<a, b, c>> # <<>> /\ Head(<<a, b, c>>) = a
  OBVIOUS
<1>4. \A a, b, c, d : <<a, b, c, d>> # <<>> /\ Head(<<a, b, c, d>>) = a
  OBVIOUS
<1>5. ASSUME NEW a PROVE Tail(<<a>>) = <<>>
  OBVIOUS
<1>6. ASSUME NEW a, NEW b PROVE Tail(<<a, b>>) = <<b>>
  OBVIOUS
<1>7. ASSUME NEW a, NEW b, NEW c PROVE Tail(<<a, b, c>>) = <<b, c>>
  OBVIOUS
<1>8. ASSUME NEW a, NEW b, NEW c, NEW d PROVE Tail(<<a, b, c, d>>) = <<b, c, d>>
  OBVIOUS
<1> QED BY <1>1, <1>2, <1>3, <1>4, <1>5, <1>6, <1>7, <1>8

LEMMA PrependOne ==
  ASSUME NEW S, NEW a \in S, NEW u \in Seq(S), NEW v \in Seq(S),
         Len(v) = Len(u) + 1, v[1] = a, \A i \in 2..Len(v) : v[i] = u[i-1]
  PROVE  <<a>> \o u = v
<1> DEFINE s == <<a>>
<1>1. s \in Seq(S) /\ Len(s) = 1 /\ s[1] = a
  OBVIOUS
<1> HIDE DEF s
<1>2. Len(u) \in Nat /\ Len(v) \in Nat
  OBVIOUS
<1>3. /\ s \o u \in Seq(S) /\ Len(s \o u) = Len(s) + Len(u)
      /\ \A i \in 1..Len(s) + Len(u) : (s \o u)[i] = IF i <= Len(s) THEN s[i] ELSE u[i - Len(s)]
  BY <1>1, ConcatProperties
<1>4. /\ Len(s \o u) = 1 + Len(u)
      /\ \A i \in 1..1 + Len(u) : (s \o u)[i] = IF i <= 1 THEN s[i] ELSE u[i-1]
  BY <1>1, <1>3
<1>5. \A i \in 1..Len(v) : (s \o u)[i] = v[i]
  BY <1>1, <1>2, <1>4
<1>6. s \o u = v
  BY <1>2, <1>3, <1>4, <1>5, SeqEqual
<1> QED BY <1>6 DEF s

LEMMA Prepend ==
  /\ \A a, b : <<a>> \o <<b>> = <<a, b>>
  /\ \A a, b, c : <<a>> \o <<b, c>> = <<a, b, c>>
  /\ \A a, b, c, d : <<a>> \o <<b, c, d>> = <<a, b, c, d>>
  /\ \A a : <<>> \o <<a>> = <<a>> /\ <<a>> \o <<>> = <<a>>
  /\ \A a, b : <<>> \o <<a, b>> = <<a, b>>
  /\ \A a, b, c : <<>> \o <<a, b, c>> = <<a, b, c>>
<1>1. ASSUME NEW a, NEW b PROVE <<a>> \o <<b>> = <<a, b>>
  <2> DEFINE S == {a, b}
             u == <<b>>
             v == <<a, b>>
  <2>1. u \in Seq(S) /\ Len(u) = 1 /\ u[1] = b
    OBVIOUS
  <2>2. v \in Seq(S) /\ Len(v) = 2 /\ v[1] = a /\ v[2] = b
    OBVIOUS
  <2>3. a \in S
    OBVIOUS
  <2> HIDE DEF u, v, S
  <2>4. Len(v) = Len(u) + 1 /\ \A i \in 2..Len(v) : v[i] = u[i-1]
    BY <2>1, <2>2
  <2>5. <<a>> \o u = v
    BY <2>1, <2>2, <2>3, <2>4, PrependOne
  <2> QED BY <2>5 DEF u, v
<1>2. ASSUME NEW a, NEW b, NEW c PROVE <<a>> \o <<b, c>> = <<a, b, c>>
  <2> DEFINE S == {a, b, c}
             u == <<b, c>>
             v == <<a, b, c>>
  <2>1. u \in Seq(S) /\ Len(u) = 2 /\ u[1] = b /\ u[2] = c
    OBVIOUS
  <2>2. v \in Seq(S) /\ Len(v) = 3 /\ v[1] = a /\ v[2] = b /\ v[3] = c
    OBVIOUS
  <2>3. a \in S
    OBVIOUS
  <2> HIDE DEF u, v, S
  <2>4. Len(v) = Len(u) + 1 /\ \A i \in 2..Len(v) : v[i] = u[i-1]
    BY <2>1, <2>2
  <2>5. <<a>> \o u = v
    BY <2>1, <2>2, <2>3, <2>4, PrependOne
  <2> QED BY <2>5 DEF u, v
<1>3. ASSUME NEW a, NEW b, NEW c, NEW d PROVE <<a>> \o <<b, c, d>> = <<a, b, c, d>>
  <2> DEFINE S == {a, b, c, d}
             u == <<b, c, d>>
             v == <<a, b, c, d>>
  <2>1. u \in Seq(S) /\ Len(u) = 3 /\ u[1] = b /\ u[2] = c /\ u[3] = d
    OBVIOUS
  <2>2. v \in Seq(S) /\ Len(v) = 4 /\ v[1] = a /\ v[2] = b /\ v[3] = c /\ v[4] = d
    OBVIOUS
  <2>3. a \in S
    OBVIOUS
  <2> HIDE DEF u, v, S
  <2>4. Len(v) = Len(u) + 1 /\ \A i \in 2..Len(v) : v[i] = u[i-1]
    BY <2>1, <2>2
  <2>5. <<a>> \o u = v
    BY <2>1, <2>2, <2>3, <2>4, PrependOne
  <2> QED BY <2>5 DEF u, v
<1>4. ASSUME NEW a PROVE <<>> \o <<a>> = <<a>> /\ <<a>> \o <<>> = <<a>>
  <2>1. <<a>> \in Seq({a})
    OBVIOUS
  <2> QED BY <2>1, ConcatEmptySeq
<1>5. ASSUME NEW a, NEW b PROVE <<>> \o <<a, b>> = <<a, b>>
  OBVIOUS
<1>6. ASSUME NEW a, NEW b, NEW c PROVE <<>> \o <<a, b, c>> = <<a, b, c>>
  OBVIOUS
<1> QED BY <1>1, <1>2, <1>3, <1>4, <1>5, <1>6

LEMMA Extend ==
  /\ \A a, b : <<a, b>> \o <<>> = <<a, b>>
  /\ \A a, b, c : <<a, b>> \o <<c>> = <<a, b, c>>
  /\ \A a, b, c, d : <<a, b, c>> \o <<d>> = <<a, b, c, d>>
<1>1. ASSUME NEW a, NEW b PROVE <<a, b>> \o <<>> = <<a, b>>
  <2>1. <<a, b>> \in Seq({a, b})
    OBVIOUS
  <2> QED BY <2>1, ConcatEmptySeq
<1>2. ASSUME NEW a, NEW b, NEW c PROVE <<a, b>> \o <<c>> = <<a, b, c>>
  <2> DEFINE S == {a, b, c}
  <2>1. <<a>> \in Seq(S) /\ <<b>> \in Seq(S) /\ <<c>> \in Seq(S)
    OBVIOUS
  <2>2. (<<a>> \o <<b>>) \o <<c>> = <<a>> \o (<<b>> \o <<c>>)
    BY <2>1, ConcatAssociative
  <2>3. <<a>> \o <<b>> = <<a, b>> /\ <<b>> \o <<c>> = <<b, c>> /\ <<a>> \o <<b, c>> = <<a, b, c>>
    BY Prepend, Zenon
  <2> QED BY <2>2, <2>3, Zenon
<1>3. ASSUME NEW a, NEW b, NEW c, NEW d PROVE <<a, b, c>> \o <<d>> = <<a, b, c, d>>
  <2> DEFINE S == {a, b, c, d}
  <2>1. <<a>> \in Seq(S) /\ <<b, c>> \in Seq(S) /\ <<d>> \in Seq(S)
    OBVIOUS
  <2>2. (<<a>> \o <<b, c>>) \o <<d>> = <<a>> \o (<<b, c>> \o <<d>>)
    BY <2>1, ConcatAssociative
  <2>3. <<a>> \o <<b, c>> = <<a, b, c>>
    BY Prepend, Zenon
  <2>4. <<b, c>> \o <<d>> = <<b, c, d>>
    BY <1>2, Zenon
  <2>5. <<a>> \o <<b, c, d>> = <<a, b, c, d>>
    BY Prepend
  <2> QED BY <2>2, <2>3, <2>4, <2>5, Zenon
<1> QED BY <1>1, <1>2, <1>3

(* What is left after the first step of what is left.                      *)
LEMMA NextLeft ==
  ASSUME NEW x, NEW t, t # <<>>
  PROVE  /\ t \in StatusLeft => Tail(t) \in StatusLeft /\ Head(t) \in {"list", "spare", "answer"}
         /\ t \in SectorLeft(x) =>
              /\ Tail(t) \in SectorLeft(x) /\ Head(t) \in {"setSpare", "add", "answer"}
              /\ Head(t) = "setSpare" => x # Unset
         /\ t \in SpeedLeft(x) =>
              /\ Tail(t) \in SpeedLeft(x) /\ Head(t) \in {"speed", "answer"}
              /\ Head(t) = "speed" => x # Unset
         /\ t \in ProfileLeft(x) => Tail(t) \in SpeedLeft(x) /\ Head(t) = "profile"
         /\ t \in CalibrateLeft(x) =>
              /\ Tail(t) \in ProfileLeft(x) /\ Head(t) = "calibrate"
              /\ <<"measure">> \o Tail(t) \in MeasureLeft(x)
         /\ t \in MeasureLeft(x) => Tail(t) \in ProfileLeft(x) /\ Head(t) = "measure"
<1>1. ASSUME t \in StatusLeft
      PROVE  Tail(t) \in StatusLeft /\ Head(t) \in {"list", "spare", "answer"}
  <2>1. \/ t = <<"answer">>
        \/ t = <<"spare", "answer">>
        \/ t = <<"list", "spare", "answer">>
    BY <1>1 DEF StatusLeft
  <2>2. CASE t = <<"answer">>
    BY <2>2, Shorten DEF StatusLeft
  <2>3. CASE t = <<"spare", "answer">>
    BY <2>3, Shorten DEF StatusLeft
  <2>4. CASE t = <<"list", "spare", "answer">>
    BY <2>4, Shorten DEF StatusLeft
  <2> QED BY <2>1, <2>2, <2>3, <2>4
<1>2. ASSUME t \in SectorLeft(x)
      PROVE  /\ Tail(t) \in SectorLeft(x) /\ Head(t) \in {"setSpare", "add", "answer"}
             /\ Head(t) = "setSpare" => x # Unset
  <2>1. \/ t = <<"answer">>
        \/ t = <<"add", "answer">>
        \/ t = <<"setSpare", "add", "answer">> /\ x # Unset
    BY <1>2 DEF SectorLeft
  <2>2. CASE t = <<"answer">>
    BY <2>2, Shorten DEF SectorLeft
  <2>3. CASE t = <<"add", "answer">>
    BY <2>3, Shorten DEF SectorLeft
  <2>4. CASE t = <<"setSpare", "add", "answer">> /\ x # Unset
    BY <2>4, Shorten DEF SectorLeft
  <2> QED BY <2>1, <2>2, <2>3, <2>4
<1>3. ASSUME t \in SpeedLeft(x)
      PROVE  /\ Tail(t) \in SpeedLeft(x) /\ Head(t) \in {"speed", "answer"}
             /\ Head(t) = "speed" => x # Unset
  <2>1. \/ t = <<"answer">>
        \/ t = <<"speed", "answer">> /\ x # Unset
    BY <1>3 DEF SpeedLeft
  <2>2. CASE t = <<"answer">>
    BY <2>2, Shorten DEF SpeedLeft
  <2>3. CASE t = <<"speed", "answer">> /\ x # Unset
    BY <2>3, Shorten DEF SpeedLeft
  <2> QED BY <2>1, <2>2, <2>3
<1>4. ASSUME t \in ProfileLeft(x)
      PROVE  Tail(t) \in SpeedLeft(x) /\ Head(t) = "profile"
  <2>1. \/ t = <<"profile", "speed", "answer">> /\ x # Unset
        \/ t = <<"profile", "answer">> /\ x = Unset
    BY <1>4 DEF ProfileLeft
  <2>2. CASE t = <<"profile", "speed", "answer">> /\ x # Unset
    BY <2>2, Shorten DEF SpeedLeft
  <2>3. CASE t = <<"profile", "answer">> /\ x = Unset
    BY <2>3, Shorten DEF SpeedLeft
  <2> QED BY <2>1, <2>2, <2>3
<1>5. ASSUME t \in CalibrateLeft(x)
      PROVE  /\ Tail(t) \in ProfileLeft(x) /\ Head(t) = "calibrate"
             /\ <<"measure">> \o Tail(t) \in MeasureLeft(x)
  <2>1. \/ t = <<"calibrate", "profile", "speed", "answer">> /\ x # Unset
        \/ t = <<"calibrate", "profile", "answer">> /\ x = Unset
    BY <1>5 DEF CalibrateLeft
  <2>2. CASE t = <<"calibrate", "profile", "speed", "answer">> /\ x # Unset
    BY <2>2, Shorten, Prepend DEF ProfileLeft, MeasureLeft
  <2>3. CASE t = <<"calibrate", "profile", "answer">> /\ x = Unset
    BY <2>3, Shorten, Prepend DEF ProfileLeft, MeasureLeft
  <2> QED BY <2>1, <2>2, <2>3
<1>6. ASSUME t \in MeasureLeft(x)
      PROVE  Tail(t) \in ProfileLeft(x) /\ Head(t) = "measure"
  <2>1. \/ t = <<"measure", "profile", "speed", "answer">> /\ x # Unset
        \/ t = <<"measure", "profile", "answer">> /\ x = Unset
    BY <1>6 DEF MeasureLeft
  <2>2. CASE t = <<"measure", "profile", "speed", "answer">> /\ x # Unset
    BY <2>2, Shorten DEF ProfileLeft
  <2>3. CASE t = <<"measure", "profile", "answer">> /\ x = Unset
    BY <2>3, Shorten DEF ProfileLeft
  <2> QED BY <2>1, <2>2, <2>3
<1> QED BY <1>1, <1>2, <1>3, <1>4, <1>5, <1>6

(* The fields of a request.                                                *)
LEMMA RequestForm ==
  ASSUME NEW r \in ControlRequests
  PROVE  /\ r.cmd \in {"status", "set-latency", "badsector"}
         /\ r.cmd = "set-latency" =>
              r.profile \in Profiles \cup {Unset} /\ r.speed \in SpeedInputs \cup {Unset}
         /\ r.cmd = "badsector" => r.rule \in RuleInputs /\ r.spare \in SpareInputs \cup {Unset}
<1>1. CASE r = [cmd |-> "status"]
  BY <1>1
<1>2. ASSUME NEW x \in LatencyInputs, r = [cmd |-> "set-latency", profile |-> x[1], speed |-> x[2]]
      PROVE  /\ r.cmd = "set-latency"
             /\ r.profile \in Profiles \cup {Unset} /\ r.speed \in SpeedInputs \cup {Unset}
  BY <1>2, ControlAssumption
<1>3. ASSUME NEW x \in BadsectorInputs, r = [cmd |-> "badsector", rule |-> x[1], spare |-> x[2]]
      PROVE  r.cmd = "badsector" /\ r.rule \in RuleInputs /\ r.spare \in SpareInputs \cup {Unset}
  BY <1>3, ControlAssumption
<1> QED BY <1>1, <1>2, <1>3 DEF ControlRequests

(* The whole route of a request.                                           *)
LEMMA RouteOf ==
  ASSUME NEW r \in ControlRequests
  PROVE  /\ r.cmd = "status" => Route(r) = <<"list", "spare", "answer">>
         /\ r.cmd = "badsector" =>
              Route(r) = IF r.spare # Unset THEN <<"setSpare", "add", "answer">> ELSE <<"add", "answer">>
         /\ r.cmd = "set-latency" /\ r.profile \in Limited =>
              Route(r) = IF r.speed # Unset THEN <<"calibrate", "profile", "speed", "answer">>
                                            ELSE <<"calibrate", "profile", "answer">>
         /\ r.cmd = "set-latency" /\ r.profile \notin Limited /\ r.profile # Unset =>
              Route(r) = IF r.speed # Unset THEN <<"profile", "speed", "answer">>
                                            ELSE <<"profile", "answer">>
         /\ r.cmd = "set-latency" /\ r.profile = Unset =>
              Route(r) = IF r.speed # Unset THEN <<"speed", "answer">> ELSE <<"answer">>
<1>1. CASE r.cmd = "status"
  BY <1>1 DEF Route, StatusRoute
<1>2. CASE r.cmd = "badsector"
  BY <1>2, Prepend DEF Route, BadsectorRoute
<1>3. CASE r.cmd = "set-latency"
  <2> DEFINE p == r.profile
             x == r.speed
  <2>1. Unset \notin Limited
    BY ControlAssumption
  <2>2. Route(r) = LatencyRoute(p, x)
    BY <1>3 DEF Route
  <2>3. CASE p \in Limited /\ p # Unset /\ x # Unset
    <3>1. Route(r) = <<"calibrate">> \o <<"profile">> \o <<"speed">> \o <<"answer">>
      BY <2>3, <2>2 DEF LatencyRoute
    <3>2. <<"calibrate">> \o <<"profile">> = <<"calibrate", "profile">>
      BY Prepend, Zenon
    <3>3. <<"calibrate", "profile">> \o <<"speed">> = <<"calibrate", "profile", "speed">>
      BY Extend, Zenon
    <3>4. <<"calibrate", "profile", "speed">> \o <<"answer">> = <<"calibrate", "profile", "speed", "answer">>
      BY Extend, Zenon
    <3>5. Route(r) = <<"calibrate", "profile", "speed", "answer">>
      BY <3>1, <3>2, <3>3, <3>4, Zenon
    <3> QED BY <1>3, <2>3, <3>5
  <2>4. CASE p \in Limited /\ p # Unset /\ x = Unset
    <3>1. Route(r) = <<"calibrate">> \o <<"profile">> \o <<>> \o <<"answer">>
      BY <2>4, <2>2 DEF LatencyRoute
    <3>2. <<"calibrate">> \o <<"profile">> = <<"calibrate", "profile">>
      BY Prepend, Zenon
    <3>3. <<"calibrate", "profile">> \o <<>> = <<"calibrate", "profile">>
      BY Extend, Zenon
    <3>4. <<"calibrate", "profile">> \o <<"answer">> = <<"calibrate", "profile", "answer">>
      BY Extend, Zenon
    <3>5. Route(r) = <<"calibrate", "profile", "answer">>
      BY <3>1, <3>2, <3>3, <3>4, Zenon
    <3> QED BY <1>3, <2>4, <3>5
  <2>5. CASE p \notin Limited /\ p # Unset /\ x # Unset
    <3>1. Route(r) = <<>> \o <<"profile">> \o <<"speed">> \o <<"answer">>
      BY <2>5, <2>2 DEF LatencyRoute
    <3>2. <<>> \o <<"profile">> = <<"profile">>
      BY Prepend, Zenon
    <3>3. <<"profile">> \o <<"speed">> = <<"profile", "speed">>
      BY Prepend, Zenon
    <3>4. <<"profile", "speed">> \o <<"answer">> = <<"profile", "speed", "answer">>
      BY Extend, Zenon
    <3>5. Route(r) = <<"profile", "speed", "answer">>
      BY <3>1, <3>2, <3>3, <3>4, Zenon
    <3> QED BY <1>3, <2>5, <3>5
  <2>6. CASE p \notin Limited /\ p # Unset /\ x = Unset
    <3>1. Route(r) = <<"profile", "answer">>
      BY <2>6, <2>2, Prepend DEF LatencyRoute
    <3> QED BY <1>3, <2>6, <3>1
  <2>7. CASE p \notin Limited /\ p = Unset /\ x # Unset
    <3>1. Route(r) = <<"speed", "answer">>
      BY <2>7, <2>2, Prepend DEF LatencyRoute
    <3> QED BY <1>3, <2>7, <3>1
  <2>8. CASE p \notin Limited /\ p = Unset /\ x = Unset
    <3>1. Route(r) = <<"answer">>
      BY <2>8, <2>2, Prepend DEF LatencyRoute
    <3> QED BY <1>3, <2>8, <3>1
  <2> QED BY <2>1, <2>3, <2>4, <2>5, <2>6, <2>7, <2>8
<1> QED BY <1>1, <1>2, <1>3, RequestForm

(* What is left are steps, and measuring is the first of them only of a    *)
(* request that measures.                                                  *)
LEMMA LeftSteps ==
  ASSUME NEW x, NEW t,
         t \in StatusLeft \cup SectorLeft(x) \cup SpeedLeft(x) \cup ProfileLeft(x)
  PROVE  t \in Seq(Steps) /\ (t = <<>> \/ Head(t) # "measure")
<1>1. t = <<>> \/ Head(t) # "measure"
  BY NextLeft
<1> DEFINE Q == Seq(Steps)
<1>2. /\ <<>> \in Q /\ <<"answer">> \in Q
      /\ <<"spare", "answer">> \in Q
      /\ <<"list", "spare", "answer">> \in Q
      /\ <<"add", "answer">> \in Q
      /\ <<"setSpare", "add", "answer">> \in Q
      /\ <<"speed", "answer">> \in Q
      /\ <<"profile", "speed", "answer">> \in Q
      /\ <<"profile", "answer">> \in Q
  BY DEF Steps
<1> HIDE DEF Q
<1>3. ASSUME t \in StatusLeft PROVE t \in Q
  BY <1>2, <1>3 DEF StatusLeft
<1>4. ASSUME t \in SectorLeft(x) PROVE t \in Q
  BY <1>2, <1>4 DEF SectorLeft
<1>5. ASSUME t \in SpeedLeft(x) PROVE t \in Q
  BY <1>2, <1>5 DEF SpeedLeft
<1>6. ASSUME t \in ProfileLeft(x) PROVE t \in Q
  BY <1>2, <1>6 DEF ProfileLeft
<1> QED BY <1>1, <1>3, <1>4, <1>5, <1>6 DEF Q

(* A new request starts with its whole route.                              *)
LEMMA RouteStarts ==
  ASSUME NEW r \in ControlRequests
  PROVE  /\ Route(r) \in Seq(Steps) /\ (Route(r) = <<>> \/ Head(Route(r)) # "measure")
         /\ r.cmd = "status" => Route(r) \in StatusLeft
         /\ r.cmd = "badsector" => Route(r) \in SectorLeft(r.spare)
         /\ r.cmd = "set-latency" => LatencyOK(r.profile, r.speed, Route(r))
<1> DEFINE t == Route(r)
<1>1. CASE r.cmd = "status"
  <2>1. t \in StatusLeft
    BY <1>1, RouteOf DEF StatusLeft
  <2> QED BY <1>1, <2>1, LeftSteps
<1>2. CASE r.cmd = "badsector"
  <2>1. t \in SectorLeft(r.spare)
    BY <1>2, RouteOf DEF SectorLeft
  <2> QED BY <1>2, <2>1, LeftSteps
<1>3. CASE r.cmd = "set-latency"
  <2>1. CASE r.profile \in Limited
    <3>1. t \in CalibrateLeft(r.speed)
      BY <1>3, <2>1, RouteOf DEF CalibrateLeft
    <3>2. /\ <<"calibrate", "profile", "speed", "answer">> \in Seq(Steps)
          /\ <<"calibrate", "profile", "answer">> \in Seq(Steps)
      BY DEF Steps
    <3>3. t \in Seq(Steps)
      BY <3>1, <3>2 DEF CalibrateLeft
    <3>4. t = <<>> \/ Head(t) # "measure"
      BY <3>1, NextLeft
    <3> QED BY <1>3, <2>1, <3>1, <3>3, <3>4 DEF LatencyOK
  <2>2. CASE r.profile \notin Limited /\ r.profile # Unset
    <3>1. t \in ProfileLeft(r.speed)
      BY <1>3, <2>2, RouteOf DEF ProfileLeft
    <3> QED BY <1>3, <2>2, <3>1, LeftSteps DEF LatencyOK
  <2>3. CASE r.profile = Unset
    <3>1. t \in SpeedLeft(r.speed)
      BY <1>3, <2>3, RouteOf DEF SpeedLeft
    <3> QED BY <1>3, <3>1, LeftSteps DEF LatencyOK
  <2> QED BY <2>1, <2>2, <2>3
<1> QED BY <1>1, <1>2, <1>3, RequestForm

(* The steps at which a request may be, with what it asked for and what it *)
(* has left after them.                                                    *)
LEMMA Where ==
  ASSUME ControlInv, NEW c \in Clients, NEW s, At(c, s)
  PROVE  LET r == request[c]
             t == Tail(todo[c])
         IN  /\ s \in {"list", "spare"} => r.cmd = "status" /\ t \in StatusLeft
             /\ s = "setSpare" => r.cmd = "badsector" /\ r.spare \in SpareInputs /\ t \in SectorLeft(r.spare)
             /\ s = "add" => r.cmd = "badsector" /\ r.rule \in RuleInputs /\ t \in SectorLeft(r.spare)
             /\ s = "speed" => r.cmd = "set-latency" /\ r.speed \in SpeedInputs /\ t \in SpeedLeft(r.speed)
             /\ s = "profile" => /\ r.cmd = "set-latency" /\ r.profile \in Profiles
                                 /\ r.profile \in Limited => Resolved
                                 /\ t \in SpeedLeft(r.speed)
             /\ s = "calibrate" => /\ r.cmd = "set-latency" /\ r.profile \in Limited
                                   /\ t \in ProfileLeft(r.speed)
                                   /\ <<"measure">> \o t \in MeasureLeft(r.speed)
             /\ s = "measure" => /\ r.cmd = "set-latency" /\ r.profile \in Limited
                                 /\ calib = "running" /\ t \in ProfileLeft(r.speed)
<1> DEFINE r == request[c]
           u == todo[c]
<1>1. u # <<>> /\ Head(u) = s
  BY DEF At
<1>2. RouteOK(c)
  BY DEF ControlInv
<1>3. r \in ControlRequests \/ r = None
  BY DEF ControlInv, ControlTypeOK
<1>4. r \in ControlRequests
  <2>1. CASE r = None
    BY <1>1, <1>2, <2>1 DEF RouteOK, None
  <2> QED BY <1>3, <2>1
<1>5. CASE r.cmd = "status"
  <2>1. u \in StatusLeft
    BY <1>2, <1>5 DEF RouteOK
  <2>2. Tail(u) \in StatusLeft /\ s \in {"list", "spare", "answer"}
    BY <1>1, <2>1, NextLeft
  <2> QED BY <1>5, <2>2
<1>6. CASE r.cmd = "badsector"
  <2>1. u \in SectorLeft(r.spare)
    BY <1>2, <1>6 DEF RouteOK
  <2>2. /\ Tail(u) \in SectorLeft(r.spare) /\ s \in {"setSpare", "add", "answer"}
        /\ s = "setSpare" => r.spare # Unset
    BY <1>1, <2>1, NextLeft
  <2>3. r.rule \in RuleInputs /\ r.spare \in SpareInputs \cup {Unset}
    BY <1>4, <1>6, RequestForm
  <2> QED BY <1>6, <2>2, <2>3
<1>7. CASE r.cmd = "set-latency"
  <2>1. r.profile \in Profiles \cup {Unset} /\ r.speed \in SpeedInputs \cup {Unset}
    BY <1>4, <1>7, RequestForm
  <2>2. LatencyOK(r.profile, r.speed, u)
    BY <1>2, <1>7 DEF RouteOK
  <2>3. CASE u \in SpeedLeft(r.speed)
    <3>1. /\ Tail(u) \in SpeedLeft(r.speed) /\ s \in {"speed", "answer"}
          /\ s = "speed" => r.speed # Unset
      BY <1>1, <2>3, NextLeft
    <3> QED BY <1>7, <2>1, <3>1
  <2>4. CASE u \in ProfileLeft(r.speed) /\ r.profile # Unset /\ (r.profile \in Limited => Resolved)
    <3>1. Tail(u) \in SpeedLeft(r.speed) /\ s = "profile"
      BY <1>1, <2>4, NextLeft
    <3> QED BY <1>7, <2>1, <2>4, <3>1
  <2>5. CASE u \in CalibrateLeft(r.speed) /\ r.profile \in Limited
    <3>1. /\ Tail(u) \in ProfileLeft(r.speed) /\ s = "calibrate"
          /\ <<"measure">> \o Tail(u) \in MeasureLeft(r.speed)
      BY <1>1, <2>5, NextLeft
    <3> QED BY <1>7, <2>5, <3>1
  <2>6. CASE u \in MeasureLeft(r.speed) /\ r.profile \in Limited /\ calib = "running"
    <3>1. Tail(u) \in ProfileLeft(r.speed) /\ s = "measure"
      BY <1>1, <2>6, NextLeft
    <3> QED BY <1>7, <2>6, <3>1
  <2> QED BY <2>2, <2>3, <2>4, <2>5, <2>6 DEF LatencyOK
<1> QED BY <1>4, <1>5, <1>6, <1>7, RequestForm

LEMMA MeasureSteps ==
  ASSUME NEW x, NEW t \in MeasureLeft(x) PROVE t \in Seq(Steps)
<1>1. /\ <<"measure", "profile", "speed", "answer">> \in Seq(Steps)
      /\ <<"measure", "profile", "answer">> \in Seq(Steps)
  BY DEF Steps
<1> QED BY <1>1 DEF MeasureLeft

-----------------------------------------------------------------------------
(* One client moves on; the others keep what they had left.                *)

Routing ==
  /\ request \in [Clients -> ControlRequests \cup {None}]
  /\ todo \in [Clients -> Seq(Steps)]
  /\ \A c \in Clients : RouteOK(c)
  /\ AloneMeasuring

LEMMA Moves ==
  ASSUME ControlInv, NEW c \in Clients, NEW r \in ControlRequests \cup {None}, NEW t \in Seq(Steps),
         request' = [request EXCEPT ![c] = r], todo' = [todo EXCEPT ![c] = t],
         calib' = calib, RouteOK(c)', t = <<>> \/ Head(t) # "measure"
  PROVE  Routing'
<1>1. /\ request \in [Clients -> ControlRequests \cup {None}]
      /\ todo \in [Clients -> Seq(Steps)]
  BY DEF ControlInv, ControlTypeOK
<1>2. /\ request' \in [Clients -> ControlRequests \cup {None}]
      /\ todo' \in [Clients -> Seq(Steps)]
  BY <1>1
<1>3. todo'[c] = t /\ \A e \in Clients \ {c} : request'[e] = request[e] /\ todo'[e] = todo[e]
  BY <1>1
<1>4. ASSUME NEW e \in Clients PROVE RouteOK(e)'
  <2>1. CASE e # c
    BY <1>3, <2>1 DEF ControlInv, RouteOK, LatencyOK, Resolved
  <2> QED BY <2>1
<1>5. ~At(c, "measure")'
  BY <1>3 DEF At
<1>6. \A e \in Clients \ {c} : At(e, "measure")' => At(e, "measure")
  BY <1>3 DEF At
<1>7. AloneMeasuring'
  BY <1>5, <1>6 DEF ControlInv, AloneMeasuring
<1> QED BY <1>2, <1>4, <1>7 DEF Routing

LEMMA Stays ==
  ASSUME ControlInv, UNCHANGED <<request, todo, calib>>
  PROVE  Routing'
BY DEF Routing, ControlInv, ControlTypeOK, RouteOK, LatencyOK, Resolved, AloneMeasuring, At

(* A step of a route that leaves the measurement alone.                    *)
LEMMA Taken ==
  ASSUME ControlInv, NEW c \in Clients, NEW s, Take(c, s), UNCHANGED calib,
         s \in {"list", "spare", "setSpare", "add", "speed", "profile"}
  PROVE  Routing'
<1> DEFINE r == request[c]
           t == Tail(todo[c])
<1>1. At(c, s) /\ todo' = [todo EXCEPT ![c] = t] /\ request' = request
  BY DEF Take
<1>2. /\ request \in [Clients -> ControlRequests \cup {None}]
      /\ todo \in [Clients -> Seq(Steps)]
  BY DEF ControlInv, ControlTypeOK
<1>3. \/ r.cmd = "status" /\ t \in StatusLeft
      \/ r.cmd = "badsector" /\ t \in SectorLeft(r.spare)
      \/ r.cmd = "set-latency" /\ t \in SpeedLeft(r.speed)
  <2>1. CASE s \in {"list", "spare"}
    BY <1>1, <2>1, Where
  <2>2. CASE s \in {"setSpare", "add"}
    BY <1>1, <2>2, Where
  <2>3. CASE s \in {"speed", "profile"}
    BY <1>1, <2>3, Where
  <2> QED BY <2>1, <2>2, <2>3
<1>4. t \in Seq(Steps) /\ (t = <<>> \/ Head(t) # "measure")
  BY <1>3, LeftSteps
<1>5. todo'[c] = t /\ request'[c] = r
  BY <1>1, <1>2
<1>6. RouteOK(c)'
  BY <1>3, <1>5 DEF RouteOK, LatencyOK
<1>7. request' = [request EXCEPT ![c] = r] /\ r \in ControlRequests \cup {None}
  BY <1>1, <1>2
<1> QED BY <1>1, <1>4, <1>6, <1>7, Moves

(* A new request, and the end of one.                                      *)
LEMMA Starts ==
  ASSUME ControlInv, NEW c \in Clients, NEW r \in ControlRequests, Begin(c, r)
  PROVE  Routing'
<1>1. /\ request' = [request EXCEPT ![c] = r] /\ todo' = [todo EXCEPT ![c] = Route(r)]
      /\ calib' = calib
  BY DEF Begin
<1>2. request'[c] = r /\ todo'[c] = Route(r)
  BY <1>1 DEF ControlInv, ControlTypeOK
<1>3. /\ Route(r) \in Seq(Steps) /\ (Route(r) = <<>> \/ Head(Route(r)) # "measure")
      /\ r.cmd = "status" => Route(r) \in StatusLeft
      /\ r.cmd = "badsector" => Route(r) \in SectorLeft(r.spare)
      /\ r.cmd = "set-latency" => LatencyOK(r.profile, r.speed, Route(r))
  BY RouteStarts
<1>4. r.cmd # "none"
  BY RequestForm
<1>5. r.cmd = "set-latency" => LatencyOK(r.profile, r.speed, Route(r))'
  BY <1>1, <1>3 DEF LatencyOK, Resolved
<1>6. RouteOK(c)'
  BY <1>2, <1>3, <1>4, <1>5 DEF RouteOK, LatencyOK, Resolved
<1> QED BY <1>1, <1>3, <1>6, Moves

LEMMA Ends ==
  ASSUME ControlInv, NEW c \in Clients, Respond(c) \/ Abandon(c)
  PROVE  Routing'
<1>1. /\ request' = [request EXCEPT ![c] = None] /\ todo' = [todo EXCEPT ![c] = <<>>]
      /\ calib' = calib
  BY DEF Respond, Abandon
<1>2. request'[c] = None /\ todo'[c] = <<>>
  BY <1>1 DEF ControlInv, ControlTypeOK
<1>3. RouteOK(c)'
  BY <1>2 DEF RouteOK, None
<1>4. <<>> \in Seq(Steps)
  OBVIOUS
<1> QED BY <1>1, <1>3, <1>4, Moves

(* The first to calibrate finds nobody measuring, and nobody ready to      *)
(* write a limited profile.                                                *)
LEMMA MeasureStarts ==
  ASSUME ControlInv, NEW c \in Clients, Measure(c)
  PROVE  Routing'
<1> DEFINE r == request[c]
           t == <<"measure">> \o Tail(todo[c])
<1>1. /\ At(c, "calibrate") /\ calib = "never" /\ calib' = "running"
      /\ todo' = [todo EXCEPT ![c] = t] /\ request' = request
  BY DEF Measure
<1>2. /\ request \in [Clients -> ControlRequests \cup {None}]
      /\ todo \in [Clients -> Seq(Steps)]
  BY DEF ControlInv, ControlTypeOK
<1>3. r.cmd = "set-latency" /\ r.profile \in Limited /\ t \in MeasureLeft(r.speed)
  BY <1>1, Where
<1>4. t \in Seq(Steps)
  BY <1>3, MeasureSteps
<1> HIDE DEF t
<1>5. todo'[c] = t /\ \A e \in Clients \ {c} : todo'[e] = todo[e]
  BY <1>1, <1>2
<1>6. ASSUME NEW e \in Clients PROVE RouteOK(e)'
  <2>1. CASE e = c
    BY <1>1, <1>3, <1>5, <2>1 DEF RouteOK, LatencyOK
  <2>2. CASE e # c
    <3>1. RouteOK(e)
      BY DEF ControlInv
    <3>2. ~Resolved /\ calib # "running"
      BY <1>1 DEF Resolved
    <3> QED BY <1>1, <1>5, <2>2, <3>1, <3>2 DEF RouteOK, LatencyOK
  <2> QED BY <2>1, <2>2
<1>7. ASSUME NEW e \in Clients \ {c} PROVE ~At(e, "measure")'
  <2>1. ~At(e, "measure")
    BY <1>1, Where
  <2> QED BY <1>5, <2>1 DEF At
<1>8. AloneMeasuring'
  BY <1>7 DEF AloneMeasuring
<1>9. request' \in [Clients -> ControlRequests \cup {None}] /\ todo' \in [Clients -> Seq(Steps)]
  BY <1>1, <1>2, <1>4
<1> QED BY <1>6, <1>8, <1>9 DEF Routing

(* When the measurement returns, the one who measured was alone.           *)
LEMMA MeasureEnds ==
  ASSUME ControlInv, NEW c \in Clients, NEW outcome \in {"ok", "failed"}, Measured(c, outcome)
  PROVE  Routing'
<1> DEFINE r == request[c]
           t == Tail(todo[c])
<1>1. /\ At(c, "measure") /\ calib' = outcome
      /\ todo' = [todo EXCEPT ![c] = t] /\ request' = request
  BY DEF Measured, Take
<1>2. /\ request \in [Clients -> ControlRequests \cup {None}]
      /\ todo \in [Clients -> Seq(Steps)]
  BY DEF ControlInv, ControlTypeOK
<1>3. /\ r.cmd = "set-latency" /\ r.profile \in Limited /\ calib = "running"
      /\ t \in ProfileLeft(r.speed)
  BY <1>1, Where
<1>4. t \in Seq(Steps) /\ (t = <<>> \/ Head(t) # "measure")
  BY <1>3, LeftSteps
<1> HIDE DEF t
<1>5. todo'[c] = t /\ \A e \in Clients \ {c} : todo'[e] = todo[e]
  BY <1>1, <1>2
<1>6. \A e \in Clients \ {c} : ~At(e, "measure")
  BY <1>1 DEF ControlInv, AloneMeasuring
<1>7. ASSUME NEW e \in Clients PROVE RouteOK(e)'
  <2>1. Resolved'
    BY <1>1 DEF Resolved
  <2>2. CASE e = c
    <3>1. r.profile # Unset
      BY <1>3, ControlAssumption
    <3> QED BY <1>1, <1>3, <1>5, <2>1, <2>2, <3>1 DEF RouteOK, LatencyOK
  <2>3. CASE e # c
    <3>1. RouteOK(e)
      BY DEF ControlInv
    <3>2. \A x : todo[e] \notin MeasureLeft(x)
      <4>1. \A x : todo[e] \in MeasureLeft(x) => todo[e] # <<>>
        BY Shorten DEF MeasureLeft
      <4>2. \A x : todo[e] \in MeasureLeft(x) => At(e, "measure")
        BY <4>1, NextLeft DEF At
      <4> QED BY <1>6, <2>3, <4>2
    <3> QED BY <1>1, <1>5, <2>1, <2>3, <3>1, <3>2 DEF RouteOK, LatencyOK
  <2> QED BY <2>2, <2>3
<1>8. AloneMeasuring'
  BY <1>4, <1>5, <1>6 DEF AloneMeasuring, At
<1>9. request' \in [Clients -> ControlRequests \cup {None}] /\ todo' \in [Clients -> Seq(Steps)]
  BY <1>1, <1>2, <1>4
<1> QED BY <1>7, <1>8, <1>9 DEF Routing

(* Whoever comes later goes on with the result.                            *)
LEMMA CacheServes ==
  ASSUME ControlInv, NEW c \in Clients, Cached(c)
  PROVE  Routing'
<1> DEFINE r == request[c]
           t == Tail(todo[c])
<1>1. /\ At(c, "calibrate") /\ calib' = calib /\ Resolved
      /\ todo' = [todo EXCEPT ![c] = t] /\ request' = request
  BY DEF Cached, Take, Resolved
<1>2. /\ request \in [Clients -> ControlRequests \cup {None}]
      /\ todo \in [Clients -> Seq(Steps)]
  BY DEF ControlInv, ControlTypeOK
<1>3. r.cmd = "set-latency" /\ r.profile \in Limited /\ t \in ProfileLeft(r.speed)
  BY <1>1, Where
<1>4. t \in Seq(Steps) /\ (t = <<>> \/ Head(t) # "measure")
  BY <1>3, LeftSteps
<1>5. todo'[c] = t /\ request'[c] = r
  BY <1>1, <1>2
<1>6. r.profile # Unset
  BY <1>3, ControlAssumption
<1>7. RouteOK(c)'
  BY <1>1, <1>3, <1>5, <1>6 DEF RouteOK, LatencyOK, Resolved
<1>8. request' = [request EXCEPT ![c] = r] /\ r \in ControlRequests \cup {None}
  BY <1>1, <1>2
<1> QED BY <1>1, <1>4, <1>7, <1>8, Moves

(* Every step leaves requests with what they can have left.                *)
LEMMA RoutingStep == ControlInv /\ [ControlNext]_allVars => Routing'
<1> SUFFICES ASSUME ControlInv, [ControlNext]_allVars PROVE Routing'
  OBVIOUS
<1>1. ASSUME NEW c \in Clients, NEW r \in ControlRequests, Begin(c, r) PROVE Routing'
  BY <1>1, Starts
<1>2. ASSUME NEW c \in Clients, Step(c) PROVE Routing'
  <2>1. CASE ListRules(c) \/ ReadSpare(c)
    BY <2>1, Taken DEF ListRules, ReadSpare
  <2>2. CASE Measure(c)
    BY <2>2, MeasureStarts
  <2>3. CASE Cached(c)
    BY <2>3, CacheServes
  <2>4. ASSUME NEW outcome \in {"ok", "failed"}, Measured(c, outcome) PROVE Routing'
    BY <2>4, MeasureEnds
  <2>5. CASE ApplyProfile(c) \/ ApplySpeed(c)
    BY <2>5, Taken DEF ApplyProfile, ApplySpeed
  <2>6. CASE ApplySpare(c) \/ AddSector(c)
    BY <2>6, Taken DEF ApplySpare, AddSector
  <2>7. CASE Abandon(c) \/ Respond(c)
    BY <2>7, Ends
  <2> QED BY <1>2, <2>1, <2>2, <2>3, <2>4, <2>5, <2>6, <2>7 DEF Step
<1>3. CASE Short
  BY <1>3, Stays DEF Short
<1>4. CASE Traffic
  BY <1>4, Stays DEF Traffic, controlVars
<1>5. CASE UNCHANGED allVars
  BY <1>5, Stays DEF allVars, controlVars
<1> QED BY <1>1, <1>2, <1>3, <1>4, <1>5 DEF ControlNext

-----------------------------------------------------------------------------
(* The injector under the requests                                         *)

LEMMA NoInjectorType == TypeOK /\ NoInjector => TypeOK'
BY DEF TypeOK, NoInjector, Reply, Void, spareVars, latencyVars

(* Whatever a request writes is what the injector accepts: a profile is    *)
(* never the unset one, a clamped profile is a profile.                    *)
LEMMA InjectorStep ==
  ControlInv /\ [ControlNext]_allVars => TypeOK' /\ ([Next]_vars \/ NoInjector)
<1> SUFFICES ASSUME ControlInv, [ControlNext]_allVars PROVE [Next]_vars \/ NoInjector
  BY TypeStep, NoInjectorType DEF ControlInv, ControlTypeOK
<1>1. ASSUME NEW c \in Clients, NEW r \in ControlRequests, Begin(c, r) PROVE NoInjector
  BY <1>1 DEF Begin
<1>2. ASSUME NEW c \in Clients, Step(c) PROVE [Next]_vars \/ NoInjector
  <2>1. CASE ListRules(c) \/ ReadSpare(c) \/ Measure(c) \/ Cached(c) \/ Abandon(c) \/ Respond(c)
    BY <2>1 DEF ListRules, ReadSpare, Measure, Cached, Abandon, Respond
  <2>2. ASSUME NEW outcome \in {"ok", "failed"}, Measured(c, outcome) PROVE NoInjector
    BY <2>2 DEF Measured
  <2>3. CASE ApplyProfile(c)
    <3>1. request[c].profile \in Profiles
      BY <2>3, Where DEF ApplyProfile, Take
    <3>2. Adjusted(request[c].profile) \in Profiles
      BY <3>1, ControlAssumption DEF Adjusted
    <3> QED BY <2>3, <3>2 DEF ApplyProfile, Next
  <2>4. CASE ApplySpeed(c)
    <3>1. request[c].speed \in SpeedInputs
      BY <2>4, Where DEF ApplySpeed, Take
    <3> QED BY <2>4, <3>1 DEF ApplySpeed, Next
  <2>5. CASE ApplySpare(c)
    <3>1. request[c].spare \in SpareInputs
      BY <2>5, Where DEF ApplySpare, Take
    <3> QED BY <2>5, <3>1 DEF ApplySpare, Next
  <2>6. CASE AddSector(c)
    <3>1. request[c].rule \in RuleInputs
      BY <2>6, Where DEF AddSector, Take
    <3> QED BY <2>6, <3>1 DEF AddSector, Next
  <2> QED BY <1>2, <2>1, <2>2, <2>3, <2>4, <2>5, <2>6 DEF Step
<1>3. CASE Short
  BY <1>3 DEF Short, Next
<1>4. CASE Traffic
  BY <1>4 DEF Traffic, Next
<1>5. CASE UNCHANGED allVars
  BY <1>5 DEF allVars
<1> QED BY <1>1, <1>2, <1>3, <1>4, <1>5 DEF ControlNext

LEMMA OvertakeType ==
  ASSUME disturbed \in [Clients -> SUBSET Steps], NEW w, NEW S \in SUBSET Steps, Overtake(w, S)
  PROVE  disturbed' \in [Clients -> SUBSET Steps]
BY DEF Overtake

(* What a reply shows and what is remembered of others' steps.             *)
HistoryOK ==
  /\ calib \in {"never", "running", "ok", "failed"}
  /\ shown \in [Clients -> Int64] /\ budget \in [Clients -> Int64]
  /\ disturbed \in [Clients -> SUBSET Steps]

LEMMA HistoryStep == ControlInv /\ [ControlNext]_allVars => HistoryOK'
<1> SUFFICES ASSUME ControlInv, [ControlNext]_allVars PROVE HistoryOK'
  OBVIOUS
<1>1. HistoryOK /\ spareCount \in Int64
  BY DEF ControlInv, ControlTypeOK, HistoryOK, TypeOK
<1>2. NotRead \in Int64
  BY MaxIntAssumption DEF NotRead, Int64
<1>3. {"profile"} \subseteq Steps /\ {"speed"} \subseteq Steps /\ {"setSpare", "list"} \subseteq Steps
      /\ {"list"} \subseteq Steps
  BY DEF Steps
<1>4. ASSUME NEW c \in Clients, NEW r \in ControlRequests, Begin(c, r) PROVE HistoryOK'
  BY <1>1, <1>4 DEF Begin, HistoryOK
<1>5. ASSUME NEW c \in Clients, Step(c) PROVE HistoryOK'
  <2>1. CASE ListRules(c) \/ ReadSpare(c)
    BY <1>1, <2>1 DEF ListRules, ReadSpare, HistoryOK
  <2>2. CASE Measure(c) \/ Cached(c)
    BY <1>1, <2>2 DEF Measure, Cached, HistoryOK
  <2>3. ASSUME NEW outcome \in {"ok", "failed"}, Measured(c, outcome) PROVE HistoryOK'
    BY <1>1, <2>3 DEF Measured, HistoryOK
  <2>4. CASE ApplyProfile(c)
    BY <1>1, <1>3, <2>4, OvertakeType DEF ApplyProfile, HistoryOK
  <2>5. CASE ApplySpeed(c)
    BY <1>1, <1>3, <2>5, OvertakeType DEF ApplySpeed, HistoryOK
  <2>6. CASE ApplySpare(c)
    BY <1>1, <1>3, <2>6, OvertakeType DEF ApplySpare, HistoryOK
  <2>7. CASE AddSector(c)
    BY <1>1, <2>7 DEF AddSector, HistoryOK
  <2>8. CASE Abandon(c) \/ Respond(c)
    BY <1>1, <1>2, <2>8 DEF Abandon, Respond, HistoryOK
  <2> QED BY <1>5, <2>1, <2>2, <2>3, <2>4, <2>5, <2>6, <2>7, <2>8 DEF Step
<1>6. CASE Short
  <2>1. UNCHANGED disturbed \/ Overtake(None, {"setSpare", "list"}) \/ Overtake(None, {"list"})
    BY <1>6 DEF Short
  <2>2. disturbed' \in [Clients -> SUBSET Steps]
    BY <1>1, <1>3, <2>1, OvertakeType DEF HistoryOK
  <2> QED BY <1>1, <1>6, <2>2 DEF Short, HistoryOK
<1>7. CASE Traffic \/ UNCHANGED allVars
  BY <1>1, <1>7 DEF Traffic, allVars, controlVars, HistoryOK
<1> QED BY <1>4, <1>5, <1>6, <1>7 DEF ControlNext

-----------------------------------------------------------------------------
(* The clamp                                                               *)

(* A request's profile passes unclamped only after a failed measurement.   *)
LEMMA AdjustedIsClamped ==
  ASSUME ControlInv, NEW c \in Clients, At(c, "profile"), Adjusted(request[c].profile) \in Limited
  PROVE  calib = "failed"
<1>1. request[c].profile \in Limited => Resolved
  BY Where
<1> QED BY <1>1, ControlAssumption DEF Adjusted, Resolved

(* The measurement is made once: nothing takes its result back.            *)
LEMMA ResultStays ==
  ASSUME ControlInv, [ControlNext]_allVars, Resolved PROVE calib' = calib
<1>1. ASSUME NEW c \in Clients, NEW r \in ControlRequests, Begin(c, r) PROVE calib' = calib
  BY <1>1 DEF Begin
<1>2. ASSUME NEW c \in Clients, Step(c) PROVE calib' = calib
  <2>1. CASE ListRules(c) \/ ReadSpare(c) \/ Cached(c) \/ ApplyProfile(c) \/ ApplySpeed(c)
    BY <2>1 DEF ListRules, ReadSpare, Cached, ApplyProfile, ApplySpeed
  <2>2. CASE ApplySpare(c) \/ AddSector(c) \/ Abandon(c) \/ Respond(c)
    BY <2>2 DEF ApplySpare, AddSector, Abandon, Respond
  <2>3. CASE Measure(c)
    BY <2>3 DEF Measure, Resolved
  <2>4. ASSUME NEW outcome \in {"ok", "failed"}, Measured(c, outcome) PROVE FALSE
    <3>1. calib = "running"
      BY <2>4, Where DEF Measured, Take
    <3> QED BY <3>1 DEF Resolved
  <2> QED BY <1>2, <2>1, <2>2, <2>3, <2>4 DEF Step
<1>3. CASE Short \/ Traffic \/ UNCHANGED allVars
  BY <1>3 DEF Short, Traffic, allVars, controlVars
<1> QED BY <1>1, <1>2, <1>3 DEF ControlNext

LEMMA ClampStep == ControlInv /\ [ControlNext]_allVars => ClampedUnlessFailed'
<1> SUFFICES ASSUME ControlInv, [ControlNext]_allVars PROVE ClampedUnlessFailed'
  OBVIOUS
<1>1. ClampedUnlessFailed /\ (calib = "failed" => calib' = "failed")
  BY ResultStays DEF ControlInv, Resolved
<1>2. CASE profile' \in {profile, initialProfile} /\ initialProfile' = initialProfile
  BY <1>1, <1>2 DEF ClampedUnlessFailed
<1>3. ASSUME NEW c \in Clients, NEW r \in ControlRequests, Begin(c, r) PROVE ClampedUnlessFailed'
  BY <1>2, <1>3 DEF Begin, NoInjector, latencyVars
<1>4. ASSUME NEW c \in Clients, Step(c) PROVE ClampedUnlessFailed'
  <2>1. CASE NoInjector
    BY <1>2, <2>1 DEF NoInjector, latencyVars
  <2>2. CASE ListRules(c) \/ ReadSpare(c) \/ Measure(c) \/ Cached(c) \/ Abandon(c) \/ Respond(c)
    BY <2>1, <2>2 DEF ListRules, ReadSpare, Measure, Cached, Abandon, Respond
  <2>3. ASSUME NEW outcome \in {"ok", "failed"}, Measured(c, outcome) PROVE ClampedUnlessFailed'
    BY <2>1, <2>3 DEF Measured
  <2>4. CASE ApplyProfile(c)
    <3>1. At(c, "profile") /\ profile' = Adjusted(request[c].profile) /\ initialProfile' = profile'
          /\ calib' = calib
      BY <2>4 DEF ApplyProfile, Take, SetProfile
    <3> QED BY <3>1, AdjustedIsClamped DEF ClampedUnlessFailed
  <2>5. CASE ApplySpeed(c)
    BY <1>2, <2>5 DEF ApplySpeed, SetSpeed
  <2>6. CASE ApplySpare(c)
    BY <1>2, <2>6 DEF ApplySpare, SetSpareBlocks, latencyVars
  <2>7. CASE AddSector(c)
    BY <1>2, <2>7 DEF AddSector, Add, latencyVars
  <2> QED BY <1>4, <2>2, <2>3, <2>4, <2>5, <2>6, <2>7 DEF Step
<1>5. CASE Short
  <2>1. ASSUME NEW r \in RuleInputs, Add(r) PROVE ClampedUnlessFailed'
    BY <1>2, <2>1 DEF Add, latencyVars
  <2>2. ASSUME NEW id \in 1..MaxID, Delete(id) PROVE ClampedUnlessFailed'
    BY <1>2, <2>2 DEF Delete, latencyVars
  <2>3. CASE Clear
    BY <1>2, <2>3 DEF Clear, latencyVars
  <2>4. ASSUME NEW x \in SpareInputs, SetSpareBlocks(x[1], x[2]) PROVE ClampedUnlessFailed'
    BY <1>2, <2>4 DEF SetSpareBlocks, latencyVars
  <2>5. ASSUME NEW skip \in BOOLEAN, Refresh(skip) PROVE ClampedUnlessFailed'
    BY <1>2, <2>5 DEF Refresh
  <2> QED BY <1>5, <2>1, <2>2, <2>3, <2>4, <2>5 DEF Short
<1>6. CASE Traffic
  <2>1. PICK q \in Requests : Check(q)
    BY <1>6 DEF Traffic
  <2>2. UNCHANGED latencyVars
    BY <2>1 DEF Check, CheckPass, CheckPlain, CheckBadRead, CheckRewrite, CheckNoSpare, CheckHeal
  <2> QED BY <1>2, <2>2 DEF latencyVars
<1>7. CASE UNCHANGED allVars
  BY <1>2, <1>7 DEF allVars, vars, latencyVars
<1> QED BY <1>3, <1>4, <1>5, <1>6, <1>7 DEF ControlNext

-----------------------------------------------------------------------------
LEMMA ControlStarts == ControlInit => ControlInv
<1> SUFFICES ASSUME ControlInit PROVE ControlInv
  OBVIOUS
<1>1. TypeOK
  BY TypeInit DEF ControlInit
<1>2. NotRead \in Int64 /\ <<>> \in Seq(Steps)
  BY MaxIntAssumption DEF NotRead, Int64
<1>3. ControlTypeOK
  BY <1>1, <1>2 DEF ControlInit, ControlTypeOK
<1>4. \A c \in Clients : RouteOK(c)
  BY DEF ControlInit, RouteOK, None
<1>5. AloneMeasuring
  BY DEF ControlInit, AloneMeasuring, At
<1>6. ClampedUnlessFailed
  BY ControlAssumption DEF ControlInit, Init, ClampedUnlessFailed
<1> QED BY <1>3, <1>4, <1>5, <1>6 DEF ControlInv

LEMMA ControlStep == ControlInv /\ [ControlNext]_allVars => ControlInv'
BY RoutingStep, InjectorStep, HistoryStep, ClampStep
   DEF ControlInv, ControlTypeOK, Routing, HistoryOK

LEMMA ControlInvariant == ControlSpec => []ControlInv
<1>1. ControlSpec => ControlInit /\ [][ControlNext]_allVars
  BY PTL DEF ControlSpec
<1> QED BY <1>1, ControlStarts, ControlStep, PTL

(* Every reachable state of the control plane is well typed: requests,     *)
(* what is left of them and the injector under them, for any number of     *)
(* concurrent clients.                                                     *)
THEOREM ControlTypeCorrect == ControlSpec => []ControlTypeOK
<1>1. ControlInv => ControlTypeOK
  BY DEF ControlInv
<1> QED BY <1>1, ControlInvariant, PTL

(* SetProfileCalibrated: whatever the order of concurrent set-latency      *)
(* requests, refreshes and traffic, neither the profile in force nor the   *)
(* one a refresh brings back exceeds the backing, unless the measurement   *)
(* failed.                                                                 *)
THEOREM ProfileStaysClamped == ControlSpec => []ClampedUnlessFailed
<1>1. ControlInv => ClampedUnlessFailed
  BY DEF ControlInv
<1> QED BY <1>1, ControlInvariant, PTL

(* calibOnce: any number of requests make one measurement between them,    *)
(* one at a time, and its result is kept.                                  *)
THEOREM MeasuredOnce == ControlSpec => OneMeasurement
<1> DEFINE OneStep == /\ Cardinality({c \in Clients : At(c, "measure")'}) <= 1
                      /\ calib \in {"ok", "failed"} => calib' = calib
<1>1. AloneMeasuring' => Cardinality({c \in Clients : At(c, "measure")'}) <= 1
  <2> DEFINE Then == {c \in Clients : At(c, "measure")'}
  <2>1. CASE Then = {}
    BY <2>1, FS_EmptySet
  <2>2. CASE Then # {} /\ AloneMeasuring'
    <3>1. PICK c \in Clients : At(c, "measure")'
      BY <2>2
    <3>2. Then = {c}
      BY <2>2, <3>1 DEF AloneMeasuring
    <3> QED BY <3>2, FS_Singleton
  <2> QED BY <2>1, <2>2
<1>2. ControlInv /\ [ControlNext]_allVars => [OneStep]_allVars
  <2> SUFFICES ASSUME ControlInv, [ControlNext]_allVars PROVE OneStep
    OBVIOUS
  <2>1. AloneMeasuring'
    BY RoutingStep DEF Routing
  <2>2. calib \in {"ok", "failed"} => calib' = calib
    BY ResultStays DEF Resolved
  <2> QED BY <1>1, <2>1, <2>2
<1>3. ControlSpec => ControlInit /\ [][ControlNext]_allVars
  BY PTL DEF ControlSpec
<1> QED BY <1>2, <1>3, ControlInvariant, PTL DEF OneMeasurement

-----------------------------------------------------------------------------
(* Who writes what.  A client that is not the one acting keeps its request *)
(* and what it has read, and is told of what others write over.            *)

Bystander(c) ==
  /\ request'[c] = request[c] /\ todo'[c] = todo[c]
  /\ shown'[c] = shown[c] /\ budget'[c] = budget[c]
  /\ disturbed[c] \subseteq disturbed'[c]

LEMMA OthersStandBy ==
  ASSUME ControlInv, [ControlNext]_allVars, NEW c \in Clients,
         \A r \in ControlRequests : ~Begin(c, r), ~Step(c)
  PROVE  Bystander(c)
<1>1. /\ request \in [Clients -> ControlRequests \cup {None}] /\ todo \in [Clients -> Seq(Steps)]
      /\ shown \in [Clients -> Int64] /\ budget \in [Clients -> Int64]
      /\ disturbed \in [Clients -> SUBSET Steps]
  BY DEF ControlInv, ControlTypeOK
<1>2. \A w, S : Overtake(w, S) => disturbed[c] \subseteq disturbed'[c]
  BY DEF Overtake
<1>3. ASSUME NEW d \in Clients \ {c}, NEW r \in ControlRequests, Begin(d, r) PROVE Bystander(c)
  BY <1>1, <1>3 DEF Begin, Bystander
<1>4. ASSUME NEW d \in Clients \ {c}, Step(d) PROVE Bystander(c)
  <2>1. CASE ListRules(d) \/ ReadSpare(d) \/ Measure(d) \/ Cached(d)
    BY <1>1, <2>1 DEF ListRules, ReadSpare, Measure, Cached, Take, Bystander
  <2>2. ASSUME NEW outcome \in {"ok", "failed"}, Measured(d, outcome) PROVE Bystander(c)
    BY <1>1, <2>2 DEF Measured, Take, Bystander
  <2>3. CASE ApplyProfile(d) \/ ApplySpeed(d) \/ ApplySpare(d)
    <3>1. /\ request' = request /\ todo' = [todo EXCEPT ![d] = Tail(@)] /\ UNCHANGED <<shown, budget>>
          /\ \E w, S : Overtake(w, S)
      BY <2>3 DEF ApplyProfile, ApplySpeed, ApplySpare, Take
    <3> QED BY <1>1, <1>2, <3>1 DEF Bystander
  <2>4. CASE AddSector(d)
    BY <1>1, <2>4 DEF AddSector, Take, Bystander
  <2>5. CASE Abandon(d) \/ Respond(d)
    BY <1>1, <2>5 DEF Abandon, Respond, Bystander
  <2> QED BY <1>4, <2>1, <2>2, <2>3, <2>4, <2>5 DEF Step
<1>5. CASE Short
  <2>1. UNCHANGED <<request, todo, shown, budget>> /\ (UNCHANGED disturbed \/ \E w, S : Overtake(w, S))
    BY <1>5 DEF Short
  <2> QED BY <1>2, <2>1 DEF Bystander
<1>6. CASE Traffic \/ UNCHANGED allVars
  BY <1>6 DEF Traffic, allVars, controlVars, Bystander
<1> QED BY <1>3, <1>4, <1>5, <1>6 DEF ControlNext

(* The profile is written by set-latency and Refresh only, and so is the   *)
(* speed.                                                                  *)
LEMMA WhoWritesProfile ==
  ASSUME [ControlNext]_allVars
  PROVE  \/ profile' \in {profile, initialProfile} /\ initialProfile' = initialProfile
         \/ \E d \in Clients : ApplyProfile(d)
<1> DEFINE Kept == profile' \in {profile, initialProfile} /\ initialProfile' = initialProfile
<1>1. CASE NoInjector \/ UNCHANGED allVars
  BY <1>1 DEF NoInjector, latencyVars, allVars, vars
<1>2. ASSUME NEW d \in Clients, Step(d), ~ApplyProfile(d), ~NoInjector PROVE Kept
  <2>1. ApplySpeed(d) \/ ApplySpare(d) \/ AddSector(d)
    BY <1>2 DEF Step, ListRules, ReadSpare, Measure, Cached, Measured, Abandon, Respond
  <2> QED
    BY <2>1 DEF ApplySpeed, ApplySpare, AddSector, SetSpeed, SetSpareBlocks, Add, latencyVars
<1>3. CASE Short
  <2>1. UNCHANGED latencyVars \/ \E skip \in BOOLEAN : Refresh(skip)
    BY <1>3 DEF Short, Add, Delete, Clear, SetSpareBlocks
  <2> QED
    BY <2>1 DEF latencyVars, Refresh
<1>4. CASE Traffic
  BY <1>4 DEF Traffic, latencyVars, Check, CheckPass, CheckPlain, CheckBadRead, CheckRewrite,
              CheckNoSpare, CheckHeal
<1> QED
  BY <1>1, <1>2, <1>3, <1>4 DEF ControlNext, Begin

LEMMA WhoWritesSpeed ==
  ASSUME [ControlNext]_allVars
  PROVE  \/ speed' \in {speed, initialSpeed} /\ initialSpeed' = initialSpeed
         \/ \E d \in Clients : ApplySpeed(d)
<1> DEFINE Kept == speed' \in {speed, initialSpeed} /\ initialSpeed' = initialSpeed
<1>1. CASE NoInjector \/ UNCHANGED allVars
  BY <1>1 DEF NoInjector, latencyVars, allVars, vars
<1>2. ASSUME NEW d \in Clients, Step(d), ~ApplySpeed(d), ~NoInjector PROVE Kept
  <2>1. ApplyProfile(d) \/ ApplySpare(d) \/ AddSector(d)
    BY <1>2 DEF Step, ListRules, ReadSpare, Measure, Cached, Measured, Abandon, Respond
  <2> QED
    BY <2>1 DEF ApplyProfile, ApplySpare, AddSector, SetProfile, SetSpareBlocks, Add, latencyVars
<1>3. CASE Short
  <2>1. UNCHANGED latencyVars \/ \E skip \in BOOLEAN : Refresh(skip)
    BY <1>3 DEF Short, Add, Delete, Clear, SetSpareBlocks
  <2> QED
    BY <2>1 DEF latencyVars, Refresh
<1>4. CASE Traffic
  BY <1>4 DEF Traffic, latencyVars, Check, CheckPass, CheckPlain, CheckBadRead, CheckRewrite,
              CheckNoSpare, CheckHeal
<1> QED
  BY <1>1, <1>2, <1>3, <1>4 DEF ControlNext, Begin

(* The budget that was set, and what is left of it.                        *)
LEMMA WhoSetsBudget ==
  ASSUME [ControlNext]_allVars
  PROVE  \/ UNCHANGED <<initialSpareCount, initialSpareBlockSize>>
         \/ \E w \in Clients \cup {None} :
              /\ Overtake(w, {"setSpare", "list"})
              /\ w \in Clients => ApplySpare(w)
<1> DEFINE Kept == UNCHANGED <<initialSpareCount, initialSpareBlockSize>>
<1>1. CASE NoInjector \/ UNCHANGED allVars
  BY <1>1 DEF NoInjector, spareVars, allVars, vars
<1>2. ASSUME NEW d \in Clients, Step(d), ~ApplySpare(d), ~NoInjector PROVE Kept
  <2>1. ApplyProfile(d) \/ ApplySpeed(d) \/ AddSector(d)
    BY <1>2 DEF Step, ListRules, ReadSpare, Measure, Cached, Measured, Abandon, Respond
  <2> QED
    BY <2>1 DEF ApplyProfile, ApplySpeed, AddSector, SetProfile, SetSpeed, Add, spareVars
<1>3. CASE Short
  <2>1. Kept \/ Overtake(None, {"setSpare", "list"})
    BY <1>3 DEF Short, Add, Delete, Clear, Refresh, spareVars
  <2> QED
    BY <2>1, ControlAssumption
<1>4. CASE Traffic
  BY <1>4 DEF Traffic, spareVars, Check, CheckPass, CheckPlain, CheckBadRead, CheckRewrite,
              CheckNoSpare, CheckHeal
<1>5. ASSUME NEW d \in Clients, ApplySpare(d)
      PROVE  d \in Clients \cup {None} /\ Overtake(d, {"setSpare", "list"})
  BY <1>5 DEF ApplySpare
<1> QED
  BY <1>1, <1>2, <1>3, <1>4, <1>5 DEF ControlNext, Begin

(* A client past one of these steps learns that somebody took it again.    *)
LEMMA Overtaken ==
  ASSUME ControlInv, NEW c \in Clients, NEW w, NEW S, Overtake(w, S), c # w, todo[c] # <<>>,
         NEW s \in S, s \in Range(Route(request[c])), s \notin Range(todo[c])
  PROVE  s \in disturbed'[c]
BY DEF Overtake

(* What is in a short sequence.                                            *)
LEMMA InSequence ==
  /\ \A s, a : s \in Range(<<a>>) <=> s = a
  /\ \A s, a, b : s \in Range(<<a, b>>) <=> s \in {a, b}
  /\ \A s, a, b, e : s \in Range(<<a, b, e>>) <=> s \in {a, b, e}
  /\ \A s, a, b, e, g : s \in Range(<<a, b, e, g>>) <=> s \in {a, b, e, g}
<1>1. ASSUME NEW s, NEW a PROVE s \in Range(<<a>>) <=> s = a
  <2> DEFINE t == <<a>>
  <2>1. DOMAIN t = {1} /\ t[1] = a
    OBVIOUS
  <2> HIDE DEF t
  <2>2. s \in Range(t) <=> s = a
    BY <2>1 DEF Range
  <2> QED BY <2>2 DEF t
<1>2. ASSUME NEW s, NEW a, NEW b PROVE s \in Range(<<a, b>>) <=> s \in {a, b}
  <2> DEFINE t == <<a, b>>
  <2>1. DOMAIN t = 1..2 /\ t[1] = a /\ t[2] = b
    OBVIOUS
  <2> HIDE DEF t
  <2>2. s \in Range(t) <=> s \in {a, b}
    BY <2>1 DEF Range
  <2> QED BY <2>2 DEF t
<1>3. ASSUME NEW s, NEW a, NEW b, NEW e PROVE s \in Range(<<a, b, e>>) <=> s \in {a, b, e}
  <2> DEFINE t == <<a, b, e>>
  <2>1. DOMAIN t = 1..3 /\ t[1] = a /\ t[2] = b /\ t[3] = e
    OBVIOUS
  <2> HIDE DEF t
  <2>2. s \in Range(t) <=> s \in {a, b, e}
    BY <2>1 DEF Range
  <2> QED BY <2>2 DEF t
<1>4. ASSUME NEW s, NEW a, NEW b, NEW e, NEW g
      PROVE  s \in Range(<<a, b, e, g>>) <=> s \in {a, b, e, g}
  <2> DEFINE t == <<a, b, e, g>>
  <2>1. DOMAIN t = 1..4 /\ t[1] = a /\ t[2] = b /\ t[3] = e /\ t[4] = g
    OBVIOUS
  <2> HIDE DEF t
  <2>2. s \in Range(t) <=> s \in {a, b, e, g}
    BY <2>1 DEF Range
  <2> QED BY <2>2 DEF t
<1> QED BY <1>1, <1>2, <1>3, <1>4

-----------------------------------------------------------------------------
(* A sector and its budget.  What ParseSpareSpec lets through is what      *)
(* SetSpareBlocks stores.                                                  *)
SpecsParsed == \A x \in BadsectorInputs : x[2] # Unset => x[2][1] >= -1 /\ x[2][2] >= 1

SectorKept(c) ==
  At(c, "add") /\ request[c].spare # Unset /\ "setSpare" \notin disturbed[c]
    => <<initialSpareCount, initialSpareBlockSize>> = request[c].spare

LEMMA SpareOfRequest ==
  ASSUME SpecsParsed, NEW r \in ControlRequests, r.cmd = "badsector", r.spare # Unset
  PROVE  r.spare = <<r.spare[1], r.spare[2]>> /\ r.spare[1] >= -1 /\ r.spare[2] >= 1
<1>1. r.spare \in SpareInputs
  BY RequestForm
<1>2. \A x \in Int64 \X Int64 : x = <<x[1], x[2]>>
  OBVIOUS
<1>3. r.spare = <<r.spare[1], r.spare[2]>>
  BY <1>1, <1>2, InjectorAssumption
<1>4. r \notin {[cmd |-> "set-latency", profile |-> x[1], speed |-> x[2]] : x \in LatencyInputs}
  OBVIOUS
<1>5. PICK x \in BadsectorInputs : r = [cmd |-> "badsector", rule |-> x[1], spare |-> x[2]]
  BY <1>4 DEF ControlRequests
<1>6. r.spare = x[2]
  BY <1>5
<1> QED
  BY <1>3, <1>6 DEF SpecsParsed

(* Only a badsector request adds, here and after the step.                 *)
LEMMA OnlySectorsAdd == ControlInv => \A c \in Clients : At(c, "add") => request[c].cmd = "badsector"
BY Where

LEMMA OnlySectorsAddNext ==
  (ControlInv => \A c \in Clients : At(c, "add") => request[c].cmd = "badsector")'
BY OnlySectorsAdd, PTL

LEMMA SectorStep ==
  ASSUME SpecsParsed, ControlInv, [ControlNext]_allVars, NEW c \in Clients, SectorKept(c)
  PROVE  SectorKept(c)'
<1> SUFFICES ASSUME At(c, "add")', request'[c].spare # Unset, "setSpare" \notin disturbed'[c]
             PROVE  <<initialSpareCount', initialSpareBlockSize'>> = request'[c].spare
  BY DEF SectorKept
<1>0. /\ request \in [Clients -> ControlRequests \cup {None}] /\ todo \in [Clients -> Seq(Steps)]
      /\ disturbed \in [Clients -> SUBSET Steps]
  BY DEF ControlInv, ControlTypeOK
<1>1. ControlInv'
  BY ControlStep
<1>2. request'[c].cmd = "badsector" /\ request'[c] \in ControlRequests
      /\ todo'[c] = <<"add", "answer">>
  <2>1. request'[c].cmd = "badsector"
    BY <1>1, OnlySectorsAddNext
  <2>2. todo'[c] \in SectorLeft(request'[c].spare)
    BY <1>1, <2>1 DEF ControlInv, RouteOK
  <2>3. todo'[c] # <<>> /\ Head(todo'[c]) = "add"
    BY DEF At
  <2>4. todo'[c] = <<"add", "answer">>
    BY <2>2, <2>3, Shorten DEF SectorLeft
  <2>5. request'[c] # None
    BY <2>1 DEF None
  <2> QED BY <1>1, <2>1, <2>4, <2>5 DEF ControlInv, ControlTypeOK
<1>3. CASE Bystander(c)
  <2>1. /\ At(c, "add") /\ request[c].spare # Unset /\ "setSpare" \notin disturbed[c]
        /\ request'[c] = request[c] /\ todo[c] = <<"add", "answer">>
    BY <1>2, <1>3 DEF Bystander, At
  <2>2. CASE UNCHANGED <<initialSpareCount, initialSpareBlockSize>>
    BY <2>1, <2>2 DEF SectorKept
  <2>3. ASSUME NEW w \in Clients \cup {None}, Overtake(w, {"setSpare", "list"}),
               w \in Clients => ApplySpare(w)
        PROVE FALSE
    <3>1. c # w
      <4>1. ASSUME c = w PROVE FALSE
        <5>1. At(c, "setSpare")
          BY <2>3, <4>1 DEF ApplySpare, Take
        <5> QED BY <2>1, <5>1 DEF At
      <4> QED BY <4>1
    <3>2. "setSpare" \in Range(Route(request[c]))
      BY <1>2, <2>1, RouteOf, InSequence
    <3>3. "setSpare" \notin Range(todo[c]) /\ todo[c] # <<>>
      BY <2>1, InSequence, Shorten
    <3>4. "setSpare" \in disturbed'[c]
      BY <2>3, <3>1, <3>2, <3>3, Overtaken
    <3> QED BY <3>4
  <2> QED BY <2>2, <2>3, WhoSetsBudget
<1>4. ASSUME NEW r \in ControlRequests, Begin(c, r) PROVE FALSE
  <2>1. request'[c] = r /\ todo'[c] = Route(r)
    BY <1>0, <1>4 DEF Begin
  <2>2. r.cmd = "badsector" /\ r.spare # Unset
    BY <1>2, <2>1
  <2>3. Head(todo'[c]) = "setSpare"
    BY <2>1, <2>2, RouteOf, Shorten
  <2> QED BY <2>3 DEF At
<1>5. CASE Step(c)
  <2>1. CASE ApplySpare(c)
    <3>1. /\ request'[c] = request[c]
          /\ SetSpareBlocks(request[c].spare[1], request[c].spare[2])
      BY <1>0, <2>1 DEF ApplySpare, Take
    <3>2. /\ request[c].spare = <<request[c].spare[1], request[c].spare[2]>>
          /\ request[c].spare[1] >= -1 /\ request[c].spare[2] >= 1
      BY <1>2, <3>1, SpareOfRequest
    <3>3. request[c].spare[1] \in Int /\ request[c].spare[2] \in Int
      <4>1. request[c].spare \in SpareInputs
        BY <1>2, <3>1, RequestForm
      <4> QED BY <4>1, InjectorAssumption, MaxIntAssumption DEF Int64
    <3>4. initialSpareCount' = request[c].spare[1] /\ initialSpareBlockSize' = request[c].spare[2]
      BY <3>1, <3>2, <3>3 DEF SetSpareBlocks
    <3> QED BY <3>1, <3>2, <3>4
  <2>2. ASSUME ~ApplySpare(c) PROVE FALSE
    <3>1. ASSUME NEW s \in {"list", "spare", "calibrate", "measure", "profile", "speed", "add"}, Take(c, s)
          PROVE  FALSE
      <4>1. At(c, s) /\ request'[c] = request[c] /\ todo'[c] = Tail(todo[c])
        BY <1>0, <3>1 DEF Take
      <4>2. request[c].cmd = "badsector"
        BY <1>2, <4>1
      <4>3. s = "add"
        BY <4>1, <4>2, Where
      <4>4. todo[c] = <<"add", "answer">>
        <5>1. todo[c] \in SectorLeft(request[c].spare)
          BY <4>2 DEF ControlInv, RouteOK
        <5>2. todo[c] # <<>> /\ Head(todo[c]) = "add"
          BY <4>1, <4>3 DEF At
        <5> QED BY <5>1, <5>2, Shorten DEF SectorLeft
      <4> QED BY <1>2, <4>1, <4>4, Shorten
    <3>2. CASE Measure(c)
      <4>1. At(c, "calibrate") /\ request'[c] = request[c]
        BY <1>0, <3>2 DEF Measure
      <4> QED BY <1>2, <4>1, Where
    <3>3. CASE Abandon(c) \/ Respond(c)
      <4>1. todo'[c] = <<>>
        BY <1>0, <3>3 DEF Abandon, Respond
      <4> QED BY <1>2, <4>1, Shorten
    <3> QED
      BY <1>5, <2>2, <3>1, <3>2, <3>3
         DEF Step, ListRules, ReadSpare, Cached, Measured, ApplyProfile, ApplySpeed, AddSector
  <2> QED BY <2>1, <2>2
<1> QED
  BY <1>3, <1>4, <1>5, OthersStandBy

(* The block size in force is the one a refresh goes back to.              *)
SameBlockSize == spareBlockSize = initialSpareBlockSize

LEMMA SameBlockSizeStep ==
  ASSUME ControlInv, [ControlNext]_allVars, SameBlockSize PROVE SameBlockSize'
<1>1. CASE [Next]_vars
  <2>1. \/ UNCHANGED <<spareBlockSize, initialSpareBlockSize>>
        \/ \E x \in SpareInputs : SetSpareBlocks(x[1], x[2])
        \/ \E skip \in BOOLEAN : Refresh(skip)
    BY <1>1 DEF Next, vars, spareVars, Add, Delete, Clear, SetProfile, SetSpeed, Check,
                CheckPass, CheckPlain, CheckBadRead, CheckRewrite, CheckNoSpare, CheckHeal
  <2> QED BY <2>1 DEF SameBlockSize, SetSpareBlocks, Refresh
<1>2. CASE NoInjector
  BY <1>2 DEF NoInjector, spareVars, SameBlockSize
<1> QED BY <1>1, <1>2, InjectorStep

(* The request that has its rule added by a step is the one that adds.     *)
LEMMA WhoAdds ==
  ASSUME ControlInv, [ControlNext]_allVars, NEW c \in Clients, At(c, "add"),
         todo'[c] = Tail(todo[c])
  PROVE  AddSector(c)
<1>0. todo \in [Clients -> Seq(Steps)]
  BY DEF ControlInv, ControlTypeOK
<1>1. todo[c] = <<"add", "answer">>
  <2>1. request[c].cmd = "badsector"
    BY Where
  <2>2. todo[c] \in SectorLeft(request[c].spare)
    BY <2>1 DEF ControlInv, RouteOK
  <2> QED BY <2>2, Shorten DEF At, SectorLeft
<1>2. todo'[c] = <<"answer">> /\ <<"answer">> # <<>>
  BY <1>1, Shorten
<1>3. <<"answer">> # <<"add", "answer">>
  BY Shorten
<1>4. ~Bystander(c)
  BY <1>1, <1>2, <1>3 DEF Bystander
<1>5. ASSUME NEW r \in ControlRequests, Begin(c, r) PROVE FALSE
  BY <1>5 DEF Begin, At
<1>6. CASE Step(c)
  <2>1. \A s : Take(c, s) => s = "add"
    BY DEF Take, At
  <2>2. ~Measure(c)
    BY DEF Measure, At
  <2>3. ~Abandon(c)
    BY <1>0, <1>2 DEF Abandon
  <2>4. ~Respond(c)
    BY <1>1, <1>3 DEF Respond
  <2> QED
    BY <1>6, <2>1, <2>2, <2>3, <2>4
       DEF Step, ListRules, ReadSpare, Cached, Measured, ApplyProfile, ApplySpeed, ApplySpare
<1> QED BY <1>4, <1>5, <1>6, OthersStandBy

(* badsector: the rule is added with the budget its command set still in   *)
(* place and with blocks of that budget, unless another request has set a  *)
(* budget in between, for any clients and any budgets ParseSpareSpec lets  *)
(* through.                                                                *)
THEOREM SectorHasItsBudget ==
  ASSUME SpecsParsed PROVE ControlSpec => SectorComesWithItsBudget
<1> DEFINE Inv == ControlInv /\ SameBlockSize /\ \A c \in Clients : SectorKept(c)
           Comes == \A c \in Clients :
             At(c, "add") /\ todo'[c] = Tail(todo[c]) /\ request[c].spare # Unset
               /\ "setSpare" \notin disturbed[c]
             => /\ <<initialSpareCount, initialSpareBlockSize>> = request[c].spare
                /\ rules'[Len(rules')].blockSize = request[c].spare[2]
<1>1. ControlInit => Inv
  BY ControlStarts DEF ControlInit, Init, SameBlockSize, SectorKept, At
<1>2. Inv /\ [ControlNext]_allVars => Inv'
  BY ControlStep, SameBlockSizeStep, SectorStep
<1>3. Inv /\ [ControlNext]_allVars => Comes
  <2> SUFFICES ASSUME Inv, [ControlNext]_allVars, NEW c \in Clients,
                      At(c, "add"), todo'[c] = Tail(todo[c]), request[c].spare # Unset,
                      "setSpare" \notin disturbed[c]
               PROVE  /\ <<initialSpareCount, initialSpareBlockSize>> = request[c].spare
                      /\ rules'[Len(rules')].blockSize = request[c].spare[2]
    OBVIOUS
  <2>1. <<initialSpareCount, initialSpareBlockSize>> = request[c].spare
    BY DEF SectorKept
  <2>2. Add(request[c].rule)
    BY WhoAdds DEF AddSector
  <2>3. rules' = Append(rules, NewRuleState(nextID + 1, request[c].rule)) /\ rules \in Seq(RuleState)
    BY <2>2 DEF Add, ControlInv, ControlTypeOK, TypeOK
  <2>4. rules'[Len(rules')] = NewRuleState(nextID + 1, request[c].rule)
    <3> DEFINE s == NewRuleState(nextID + 1, request[c].rule)
    <3> HIDE DEF s
    <3>1. rules' = Append(rules, s)
      BY <2>3 DEF s
    <3>2. rules'[Len(rules')] = s
      BY <2>3, <3>1
    <3> QED BY <3>2 DEF s
  <2>5. rules'[Len(rules')].blockSize = spareBlockSize
    BY <2>4 DEF NewRuleState
  <2>6. initialSpareBlockSize = request[c].spare[2]
    BY <2>1
  <2> QED BY <2>1, <2>5, <2>6 DEF SameBlockSize
<1>4. ControlSpec => ControlInit /\ [][ControlNext]_allVars
  BY PTL DEF ControlSpec
<1>5. Inv /\ [ControlNext]_allVars => [Comes]_allVars
  BY <1>3
<1> HIDE DEF Inv, Comes
<1>6. ControlSpec => [][Comes]_allVars
  BY <1>1, <1>2, <1>4, <1>5, PTL
<1> QED BY <1>6 DEF SectorComesWithItsBudget, Comes

-----------------------------------------------------------------------------
(* set-latency.  Past its step, the profile a request gave and the one a   *)
(* refresh brings back are its own until another set-latency writes them.  *)

ProfileWritten(c) ==
  request[c].cmd = "set-latency" /\ todo[c] \in {<<"answer">>, <<"speed", "answer">>}

SpeedWritten(c) == request[c].cmd = "set-latency" /\ todo[c] = <<"answer">>

SpeedSet(x) == IF x <= 0 THEN 10 ELSE x

LatencyKept(c) ==
  /\ ProfileWritten(c) /\ request[c].profile # Unset /\ "profile" \notin disturbed[c] =>
       /\ profile = Adjusted(request[c].profile) /\ initialProfile = profile
       /\ request[c].profile \in Limited => Resolved
  /\ SpeedWritten(c) /\ request[c].speed # Unset /\ "speed" \notin disturbed[c] =>
       speed = SpeedSet(request[c].speed) /\ initialSpeed = speed

LEMMA LatencyByOthers ==
  ASSUME ControlInv, [ControlNext]_allVars, NEW c \in Clients, LatencyKept(c), Bystander(c)
  PROVE  LatencyKept(c)'
<1>1. request'[c] = request[c] /\ todo'[c] = todo[c] /\ disturbed[c] \subseteq disturbed'[c]
  BY DEF Bystander
<1>2. ASSUME request[c].cmd = "set-latency" PROVE request[c] \in ControlRequests
  BY <1>2 DEF ControlInv, ControlTypeOK, None
<1>3. ASSUME ProfileWritten(c), request[c].profile # Unset, "profile" \notin disturbed'[c]
      PROVE  /\ profile' = Adjusted(request[c].profile)' /\ initialProfile' = profile'
             /\ request[c].profile \in Limited => Resolved'
  <2>1. /\ profile = Adjusted(request[c].profile) /\ initialProfile = profile
        /\ request[c].profile \in Limited => Resolved
    BY <1>1, <1>3 DEF LatencyKept
  <2>2. request[c].profile \in Limited => calib' = calib
    BY <2>1, ResultStays
  <2>3. Adjusted(request[c].profile)' = Adjusted(request[c].profile)
    BY <1>1, <2>2 DEF Adjusted
  <2>4. ASSUME NEW d \in Clients, ApplyProfile(d) PROVE FALSE
    <3>1. Overtake(d, {"profile"}) /\ At(d, "profile")
      BY <2>4 DEF ApplyProfile, Take
    <3>2. c # d /\ todo[c] # <<>> /\ "profile" \notin Range(todo[c])
      BY <1>3, <3>1, Shorten, InSequence DEF ProfileWritten, At
    <3>3. "profile" \in Range(Route(request[c]))
      BY <1>2, <1>3, RouteOf, InSequence DEF ProfileWritten
    <3>4. "profile" \in disturbed'[c]
      BY <3>1, <3>2, <3>3, Overtaken
    <3> QED BY <1>3, <3>4
  <2>5. profile' = profile /\ initialProfile' = initialProfile
    BY <2>1, <2>4, WhoWritesProfile
  <2> QED BY <2>1, <2>2, <2>3, <2>5 DEF Resolved
<1>4. ASSUME SpeedWritten(c), request[c].speed # Unset, "speed" \notin disturbed'[c]
      PROVE  speed' = SpeedSet(request[c].speed) /\ initialSpeed' = speed'
  <2>1. speed = SpeedSet(request[c].speed) /\ initialSpeed = speed
    BY <1>1, <1>4 DEF LatencyKept
  <2>2. ASSUME NEW d \in Clients, ApplySpeed(d) PROVE FALSE
    <3>1. Overtake(d, {"speed"}) /\ At(d, "speed")
      BY <2>2 DEF ApplySpeed, Take
    <3>2. c # d /\ todo[c] # <<>> /\ "speed" \notin Range(todo[c])
      BY <1>4, <3>1, Shorten, InSequence DEF SpeedWritten, At
    <3>3. "speed" \in Range(Route(request[c]))
      <4>1. request[c] \in ControlRequests /\ request[c].cmd = "set-latency"
        BY <1>2, <1>4 DEF SpeedWritten
      <4>2. \/ Route(request[c]) = <<"calibrate", "profile", "speed", "answer">>
            \/ Route(request[c]) = <<"profile", "speed", "answer">>
            \/ Route(request[c]) = <<"speed", "answer">>
        BY <1>4, <4>1, RouteOf
      <4> QED BY <4>2, InSequence
    <3>4. "speed" \in disturbed'[c]
      BY <3>1, <3>2, <3>3, Overtaken
    <3> QED BY <1>4, <3>4
  <2>3. speed' = speed /\ initialSpeed' = initialSpeed
    BY <2>1, <2>2, WhoWritesSpeed
  <2> QED BY <2>1, <2>3
<1> QED
  BY <1>1, <1>3, <1>4 DEF LatencyKept, ProfileWritten, SpeedWritten, Adjusted

(* What a request that is about to write has left.                         *)
LEMMA LeftOfLatency ==
  ASSUME ControlInv, NEW c \in Clients
  PROVE  /\ At(c, "profile") =>
              todo[c] = IF request[c].speed # Unset THEN <<"profile", "speed", "answer">>
                                                    ELSE <<"profile", "answer">>
         /\ At(c, "speed") => todo[c] = <<"speed", "answer">>
<1> DEFINE r == request[c]
           t == todo[c]
<1>1. ASSUME At(c, "profile")
      PROVE  t = IF r.speed # Unset THEN <<"profile", "speed", "answer">> ELSE <<"profile", "answer">>
  <2>1. t # <<>> /\ Head(t) = "profile"
    BY <1>1 DEF At
  <2>2. r.cmd = "set-latency"
    BY <1>1, Where
  <2>3. LatencyOK(r.profile, r.speed, t)
    BY <2>2 DEF ControlInv, RouteOK
  <2>4. t \in ProfileLeft(r.speed)
    BY <2>1, <2>3, NextLeft DEF LatencyOK
  <2> QED BY <2>4 DEF ProfileLeft
<1>2. ASSUME At(c, "speed") PROVE t = <<"speed", "answer">>
  <2>1. t # <<>> /\ Head(t) = "speed"
    BY <1>2 DEF At
  <2>2. r.cmd = "set-latency"
    BY <1>2, Where
  <2>3. LatencyOK(r.profile, r.speed, t)
    BY <2>2 DEF ControlInv, RouteOK
  <2>4. t \in SpeedLeft(r.speed)
    BY <2>1, <2>3, NextLeft DEF LatencyOK
  <2> QED BY <2>1, <2>4, Shorten DEF SpeedLeft
<1> QED BY <1>1, <1>2

LEMMA LatencyByItself ==
  ASSUME ControlInv, NEW c \in Clients, LatencyKept(c),
         (\E r \in ControlRequests : Begin(c, r)) \/ Step(c)
  PROVE  LatencyKept(c)'
<1> DEFINE q == request[c]
           t == Tail(todo[c])
<1>0. /\ request \in [Clients -> ControlRequests \cup {None}] /\ todo \in [Clients -> Seq(Steps)]
      /\ disturbed \in [Clients -> SUBSET Steps]
  BY DEF ControlInv, ControlTypeOK
<1>1. ASSUME ~ProfileWritten(c)', ~SpeedWritten(c)' PROVE LatencyKept(c)'
  BY <1>1 DEF LatencyKept
<1>2. ASSUME NEW r \in ControlRequests, Begin(c, r) PROVE LatencyKept(c)'
  <2>1. request'[c] = r /\ todo'[c] = Route(r)
    BY <1>0, <1>2 DEF Begin
  <2>2. ProfileWritten(c)' => r.profile = Unset
    <3>1. CASE r.cmd = "set-latency" /\ r.profile \in Limited
      <4>1. Head(Route(r)) = "calibrate"
        BY <3>1, RouteOf, Shorten
      <4> QED BY <2>1, <4>1, Shorten DEF ProfileWritten
    <3>2. CASE r.cmd = "set-latency" /\ r.profile \notin Limited /\ r.profile # Unset
      <4>1. Head(Route(r)) = "profile"
        BY <3>2, RouteOf, Shorten
      <4> QED BY <2>1, <4>1, Shorten DEF ProfileWritten
    <3> QED BY <2>1, <3>1, <3>2 DEF ProfileWritten
  <2>3. SpeedWritten(c)' => r.speed = Unset
    <3>1. SpeedWritten(c)' => ProfileWritten(c)'
      BY DEF SpeedWritten, ProfileWritten
    <3>2. r.cmd = "set-latency" /\ r.profile = Unset /\ r.speed # Unset => Head(Route(r)) = "speed"
      BY RouteOf, Shorten
    <3> QED BY <2>1, <2>2, <3>1, <3>2, Shorten DEF SpeedWritten
  <2> QED BY <2>1, <2>2, <2>3 DEF LatencyKept
<1>3. ASSUME NEW s \in {"list", "spare", "setSpare", "add"}, Take(c, s) PROVE LatencyKept(c)'
  <2>1. request'[c] = q /\ At(c, s)
    BY <1>3 DEF Take
  <2>2. q.cmd # "set-latency"
    BY <1>3, <2>1, Where
  <2> QED BY <1>1, <2>1, <2>2 DEF ProfileWritten, SpeedWritten
<1>4. CASE Measure(c)
  <2>1. At(c, "calibrate") /\ todo'[c] = <<"measure">> \o t
    BY <1>0, <1>4 DEF Measure
  <2>2. todo'[c] \in MeasureLeft(q.speed)
    BY <2>1, Where
  <2>3. todo'[c] # <<>> /\ Head(todo'[c]) = "measure"
    BY <2>2, Shorten DEF MeasureLeft
  <2> QED BY <1>1, <2>3, Shorten DEF ProfileWritten, SpeedWritten
<1>5. ASSUME NEW s \in {"calibrate", "measure"}, Take(c, s) PROVE LatencyKept(c)'
  <2>1. At(c, s) /\ todo'[c] = t
    BY <1>0, <1>5 DEF Take
  <2>2. todo'[c] \in ProfileLeft(q.speed)
    BY <1>5, <2>1, Where
  <2>3. todo'[c] # <<>> /\ Head(todo'[c]) = "profile"
    BY <2>2, Shorten DEF ProfileLeft
  <2> QED BY <1>1, <2>3, Shorten DEF ProfileWritten, SpeedWritten
<1>6. CASE ApplyProfile(c)
  <2>1. At(c, "profile") /\ request'[c] = q /\ todo'[c] = t /\ SetProfile(Adjusted(q.profile))
    BY <1>0, <1>6 DEF ApplyProfile, Take
  <2>2. profile' = Adjusted(q.profile) /\ initialProfile' = profile' /\ calib' = calib
    BY <1>6, <2>1 DEF ApplyProfile, SetProfile
  <2>3. Adjusted(q.profile)' = Adjusted(q.profile)
    BY <2>1, <2>2 DEF Adjusted
  <2>4. q.profile \in Limited => Resolved'
    BY <2>1, <2>2, Where DEF Resolved
  <2>5. SpeedWritten(c)' => q.speed = Unset
    <3>1. q.speed # Unset => todo'[c] = <<"speed", "answer">>
      <4>1. q.speed # Unset => todo[c] = <<"profile", "speed", "answer">>
        BY <2>1, LeftOfLatency
      <4>2. Tail(<<"profile", "speed", "answer">>) = <<"speed", "answer">>
        BY Shorten
      <4> QED BY <2>1, <4>1, <4>2
    <3> QED BY <3>1, Shorten DEF SpeedWritten
  <2> QED BY <2>1, <2>2, <2>3, <2>4, <2>5 DEF LatencyKept, Adjusted
<1>7. CASE ApplySpeed(c)
  <2>1. At(c, "speed") /\ request'[c] = q /\ todo'[c] = t /\ SetSpeed(q.speed) /\ calib' = calib
    BY <1>0, <1>7 DEF ApplySpeed, Take
  <2>2. disturbed'[c] = disturbed[c]
    BY <1>7 DEF ApplySpeed, Overtake
  <2>3. /\ speed' = SpeedSet(q.speed) /\ initialSpeed' = speed'
        /\ profile' = profile /\ initialProfile' = initialProfile
    BY <2>1 DEF SetSpeed, SpeedSet
  <2>4. ProfileWritten(c)
    BY <2>1, LeftOfLatency, Where DEF ProfileWritten
  <2> QED BY <2>1, <2>2, <2>3, <2>4 DEF LatencyKept, Adjusted, Resolved
<1>8. CASE Abandon(c) \/ Respond(c)
  <2>1. todo'[c] = <<>>
    BY <1>0, <1>8 DEF Abandon, Respond
  <2> QED BY <1>1, <2>1, Shorten DEF ProfileWritten, SpeedWritten
<1> QED
  BY <1>2, <1>3, <1>4, <1>5, <1>6, <1>7, <1>8
     DEF Step, ListRules, ReadSpare, Cached, Measured, ApplySpare, AddSector

(* set-latency: when it answers, its profile and its speed are in force,   *)
(* and a refresh brings them back, unless another set-latency wrote the    *)
(* same field later, for any clients, requests, refreshes and outcome of   *)
(* the measurement.                                                        *)
THEOREM LatencyIsInForce == ControlSpec => []LatencyTakesEffect
<1> DEFINE Inv == ControlInv /\ \A c \in Clients : LatencyKept(c)
<1>1. ControlInit => Inv
  BY ControlStarts, Shorten DEF ControlInit, LatencyKept, ProfileWritten, SpeedWritten
<1>2. Inv /\ [ControlNext]_allVars => Inv'
  <2> SUFFICES ASSUME Inv, [ControlNext]_allVars, NEW c \in Clients PROVE LatencyKept(c)'
    BY ControlStep
  <2> QED BY LatencyByItself, LatencyByOthers, OthersStandBy
<1>3. Inv => LatencyTakesEffect
  BY DEF LatencyKept, ProfileWritten, SpeedWritten, SpeedSet, LatencyTakesEffect
<1>4. ControlSpec => ControlInit /\ [][ControlNext]_allVars
  BY PTL DEF ControlSpec
<1> HIDE DEF Inv
<1> QED BY <1>1, <1>2, <1>3, <1>4, PTL

-----------------------------------------------------------------------------
(* status and dump.  The budget is read once, after the rules, and others  *)
(* can only have spent from it, unless it was filled.                      *)

LEMMA WhoFillsBudget ==
  ASSUME TypeOK, GridsFit, SpareWithinBudget, [ControlNext]_allVars
  PROVE  \/ spareCount' <= spareCount
         \/ \E w \in Clients \cup {None}, S \in SUBSET Steps :
              /\ "list" \in S /\ Overtake(w, S)
              /\ w \in Clients => ApplySpare(w)
<1>0. spareCount \in Int /\ {"setSpare", "list"} \in SUBSET Steps /\ {"list"} \in SUBSET Steps
  BY MaxIntAssumption DEF TypeOK, Int64, Steps
<1>1. CASE UNCHANGED spareVars
  BY <1>0, <1>1 DEF spareVars
<1>2. CASE NoInjector \/ UNCHANGED allVars
  BY <1>1, <1>2 DEF NoInjector, spareVars, allVars, vars
<1>3. ASSUME NEW d \in Clients, Step(d), ~ApplySpare(d), ~NoInjector PROVE UNCHANGED spareVars
  <2>1. ApplyProfile(d) \/ ApplySpeed(d) \/ AddSector(d)
    BY <1>3 DEF Step, ListRules, ReadSpare, Measure, Cached, Measured, Abandon, Respond
  <2> QED
    BY <2>1 DEF ApplyProfile, ApplySpeed, AddSector, SetProfile, SetSpeed, Add, spareVars
<1>4. CASE Short
  <2>1. UNCHANGED spareVars \/ \E S \in {{"setSpare", "list"}, {"list"}} : Overtake(None, S)
    BY <1>4 DEF Short, Add, Delete, Clear
  <2> QED
    BY <1>0, <1>1, <2>1, ControlAssumption
<1>5. CASE Traffic
  <2>1. PICK q \in Requests : Check(q)
    BY <1>5 DEF Traffic
  <2>2. ASSUME NEW i \in DOMAIN rules, CheckHeal(q, i) PROVE spareCount' <= spareCount
    <3>1. Charge(rules[i], q) \in Int /\ Charge(rules[i], q) >= 0
      BY <2>2, ChargeInt, ChargeNotNegative
    <3>2. spareCount >= 0 => spareCount' = spareCount - Charge(rules[i], q)
      BY <2>2, HealBudget
    <3>3. spareCount < 0 => spareCount' = spareCount
      BY <1>0, <2>2 DEF CheckHeal
    <3> QED BY <1>0, <3>1, <3>2, <3>3
  <2> QED
    BY <1>1, <2>1, <2>2 DEF Check, CheckPass, CheckPlain, CheckBadRead, CheckRewrite, CheckNoSpare
<1>6. ASSUME NEW d \in Clients, ApplySpare(d)
      PROVE  d \in Clients \cup {None} /\ Overtake(d, {"setSpare", "list"})
  BY <1>6 DEF ApplySpare
<1> QED
  BY <1>0, <1>1, <1>2, <1>3, <1>4, <1>5, <1>6 DEF ControlNext, Begin

(* What status has read and not answered yet.                              *)
StatusKept(c) ==
  /\ budget[c] # NotRead =>
       request[c].cmd = "status" /\ todo[c] \in {<<"answer">>, <<"spare", "answer">>}
  /\ shown[c] # NotRead => request[c].cmd = "status" /\ todo[c] = <<"answer">>
  /\ budget[c] # NotRead /\ "list" \notin disturbed[c] =>
       /\ spareCount <= budget[c]
       /\ shown[c] # NotRead => shown[c] <= budget[c]

LEMMA StatusByOthers ==
  ASSUME ControlInv, GridsFit, SpareWithinBudget, [ControlNext]_allVars,
         NEW c \in Clients, StatusKept(c), Bystander(c)
  PROVE  StatusKept(c)'
<1>1. /\ request'[c] = request[c] /\ todo'[c] = todo[c] /\ disturbed[c] \subseteq disturbed'[c]
      /\ shown'[c] = shown[c] /\ budget'[c] = budget[c]
  BY DEF Bystander
<1>2. TypeOK /\ spareCount \in Int /\ spareCount' \in Int /\ budget[c] \in Int
  <2>1. TypeOK /\ TypeOK' /\ budget[c] \in Int64
    BY InjectorStep DEF ControlInv, ControlTypeOK
  <2> QED BY <2>1, MaxIntAssumption DEF TypeOK, Int64
<1>3. ASSUME budget[c] # NotRead, "list" \notin disturbed'[c] PROVE spareCount' <= budget[c]
  <2>1. request[c].cmd = "status" /\ todo[c] \in {<<"answer">>, <<"spare", "answer">>}
    BY <1>3 DEF StatusKept
  <2>2. request[c] \in ControlRequests
    BY <2>1 DEF ControlInv, ControlTypeOK, None
  <2>3. ASSUME NEW w \in Clients \cup {None}, NEW S \in SUBSET Steps, "list" \in S, Overtake(w, S),
               w \in Clients => ApplySpare(w)
        PROVE  FALSE
    <3>1. ~At(c, "setSpare")
      BY <2>1, Where
    <3>2. c # w
      BY <2>3, <3>1 DEF ApplySpare, Take
    <3>3. "list" \in Range(Route(request[c]))
      BY <2>1, <2>2, RouteOf, InSequence
    <3>4. "list" \notin Range(todo[c]) /\ todo[c] # <<>>
      <4>1. CASE todo[c] = <<"answer">>
        BY <4>1, InSequence, Shorten
      <4>2. CASE todo[c] = <<"spare", "answer">>
        BY <4>2, InSequence, Shorten
      <4> QED BY <2>1, <4>1, <4>2
    <3>5. "list" \in disturbed'[c]
      BY <2>3, <3>2, <3>3, <3>4, Overtaken
    <3> QED BY <1>3, <3>5
  <2>4. spareCount' <= spareCount
    BY <1>2, <2>3, WhoFillsBudget
  <2>5. spareCount <= budget[c]
    BY <1>1, <1>3 DEF StatusKept
  <2> QED BY <1>2, <2>4, <2>5
<1> QED BY <1>1, <1>3 DEF StatusKept

LEMMA StatusByItself ==
  ASSUME ControlInv, NEW c \in Clients, StatusKept(c),
         (\E r \in ControlRequests : Begin(c, r)) \/ Step(c)
  PROVE  StatusKept(c)'
<1> DEFINE q == request[c]
           Nothing == budget[c] = NotRead /\ shown[c] = NotRead
<1>0. /\ request \in [Clients -> ControlRequests \cup {None}] /\ todo \in [Clients -> Seq(Steps)]
      /\ disturbed \in [Clients -> SUBSET Steps]
      /\ shown \in [Clients -> Int64] /\ budget \in [Clients -> Int64]
      /\ spareCount \in Int /\ budget[c] \in Int
  <2>1. spareCount \in Int64 /\ budget[c] \in Int64
    BY DEF ControlInv, ControlTypeOK, TypeOK
  <2> QED BY <2>1, MaxIntAssumption DEF ControlInv, ControlTypeOK, Int64
<1>1. ASSUME Nothing, UNCHANGED <<shown, budget>> PROVE StatusKept(c)'
  BY <1>1 DEF StatusKept
<1>2. todo[c] = <<>> => Nothing
  BY Shorten DEF StatusKept
<1>3. q.cmd # "status" => Nothing
  BY DEF StatusKept
<1>4. ASSUME NEW r \in ControlRequests, Begin(c, r) PROVE StatusKept(c)'
  BY <1>1, <1>2, <1>4 DEF Begin
<1>5. CASE ListRules(c)
  <2>1. At(c, "list") /\ request'[c] = q /\ todo'[c] = Tail(todo[c])
    BY <1>0, <1>5 DEF ListRules, Take
  <2>2. q.cmd = "status"
    BY <2>1, Where
  <2>3. todo[c] = <<"list", "spare", "answer">>
    <3>1. todo[c] \in StatusLeft
      BY <2>2 DEF ControlInv, RouteOK
    <3> QED BY <2>1, <3>1, Shorten DEF At, StatusLeft
  <2>4. todo'[c] = <<"spare", "answer">>
    BY <2>1, <2>3, Shorten
  <2>5. shown'[c] = NotRead
    <3>1. <<"list", "spare", "answer">> # <<"answer">>
      BY Shorten
    <3> QED BY <1>5, <2>3, <3>1 DEF ListRules, StatusKept
  <2>6. budget'[c] = spareCount /\ spareCount' = spareCount
    BY <1>0, <1>5 DEF ListRules, NoInjector, spareVars
  <2>7. spareCount' <= budget'[c]
    BY <1>0, <2>6
  <2>8. request'[c].cmd = "status" /\ todo'[c] \in {<<"answer">>, <<"spare", "answer">>}
    BY <2>1, <2>2, <2>4
  <2> QED BY <2>5, <2>7, <2>8 DEF StatusKept
<1>6. CASE ReadSpare(c)
  <2>1. At(c, "spare") /\ request'[c] = q /\ todo'[c] = Tail(todo[c])
    BY <1>0, <1>6 DEF ReadSpare, Take
  <2>2. q.cmd = "status"
    BY <2>1, Where
  <2>3. todo[c] = <<"spare", "answer">>
    <3>1. todo[c] \in StatusLeft
      BY <2>2 DEF ControlInv, RouteOK
    <3> QED BY <2>1, <3>1, Shorten DEF At, StatusLeft
  <2>4. todo'[c] = <<"answer">>
    BY <2>1, <2>3, Shorten
  <2>5. /\ shown'[c] = spareCount /\ spareCount' = spareCount
        /\ budget' = budget /\ disturbed' = disturbed
    BY <1>0, <1>6 DEF ReadSpare, NoInjector, spareVars
  <2> QED BY <2>1, <2>2, <2>4, <2>5 DEF StatusKept
<1>7. ASSUME NEW s \in {"calibrate", "measure", "profile", "speed", "setSpare", "add"},
             At(c, s), UNCHANGED <<shown, budget>>
      PROVE  StatusKept(c)'
  <2>1. q.cmd # "status"
    BY <1>7, Where
  <2> QED BY <1>1, <1>3, <1>7, <2>1
<1>8. CASE Abandon(c)
  BY <1>1, <1>3, <1>8 DEF Abandon
<1>9. CASE Respond(c)
  <2>1. shown'[c] = NotRead /\ budget'[c] = NotRead
    BY <1>0, <1>9 DEF Respond
  <2> QED BY <2>1 DEF StatusKept
<1> QED
  BY <1>4, <1>5, <1>6, <1>7, <1>8, <1>9
     DEF Step, Measure, Cached, Measured, ApplyProfile, ApplySpeed, ApplySpare, AddSector, Take

(* status and dump: the reply is torn, but never shows more spare blocks   *)
(* than there were when its rules were listed, unless the budget was       *)
(* filled in between: a repair it lists is paid in it, for any clients,    *)
(* traffic and rules.                                                      *)
THEOREM RepairsShownWerePaid ==
  ASSUME GridBounded PROVE ControlSpec => []RepairsShownArePaid
<1> DEFINE Inv == /\ ControlInv /\ GridsFit /\ SpareWithinBudget
                  /\ \A c \in Clients : StatusKept(c)
<1>1. ControlInit => Inv
  <2> SUFFICES ASSUME ControlInit PROVE GridsFit /\ SpareWithinBudget /\ \A c \in Clients : StatusKept(c)
    BY ControlStarts
  <2>1. GridsFit /\ SpareWithinBudget
    BY DEF ControlInit, Init, GridsFit, GridBounded, SpareWithinBudget
  <2>2. \A c \in Clients : StatusKept(c)
    BY DEF ControlInit, StatusKept
  <2> QED BY <2>1, <2>2
<1>2. Inv /\ [ControlNext]_allVars => Inv'
  <2> SUFFICES ASSUME Inv, [ControlNext]_allVars
               PROVE  GridsFit' /\ SpareWithinBudget' /\ \A c \in Clients : StatusKept(c)'
    BY ControlStep
  <2>1. GridsFit' /\ SpareWithinBudget'
    <3>1. CASE [Next]_vars
      BY <3>1, GridsFitStep, SpareBudgetStep DEF ControlInv, ControlTypeOK
    <3>2. CASE NoInjector
      BY <3>2 DEF NoInjector, spareVars, GridsFit, SpareWithinBudget
    <3> QED BY <3>1, <3>2, InjectorStep
  <2>2. ASSUME NEW c \in Clients PROVE StatusKept(c)'
    BY StatusByItself, StatusByOthers, OthersStandBy
  <2> QED BY <2>1, <2>2
<1>3. Inv => RepairsShownArePaid
  BY DEF StatusKept, RepairsShownArePaid
<1>4. ControlSpec => ControlInit /\ [][ControlNext]_allVars
  BY PTL DEF ControlSpec
<1> HIDE DEF Inv
<1> QED BY <1>1, <1>2, <1>3, <1>4, PTL
=============================================================================
