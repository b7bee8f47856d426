----------------------- MODULE DiscordVoiceLinkProofs -----------------------
(***************************************************************************)
(* Proofs about DiscordVoiceLink for any number of voice sessions, things  *)
(* that go wrong and messages in flight, in every order of arrival.        *)
(***************************************************************************)
EXTENDS DiscordVoiceLink, FiniteSetTheorems, SequenceTheorems, TLAPS

-----------------------------------------------------------------------------
(* The link while an event changes it. *)

Draft ==
    [connected : BOOLEAN, info : Info, reallocating : BOOLEAN,
     failed : BOOLEAN, rejoining : BOOLEAN, leaving : BOOLEAN,
     due : {"none", "later", "ripe"}, attempts : {0, 1},
     upSince : {"none", "fresh", "lasted"}, bumped : BOOLEAN, hand : BOOLEAN]

(* The two differ at most in when the next join is due. *)
SameGoal(m, l) ==
    /\ m.connected = l.connected /\ m.info = l.info
    /\ m.reallocating = l.reallocating /\ m.rejoining = l.rejoining
    /\ m.bumped = l.bumped /\ m.hand = l.hand

LEMMA NoInfoIsInfo == NoInfo \in Info
BY DEF NoInfo, Info

LEMMA EndedUpFacts ==
  ASSUME NEW l \in Draft
  PROVE  EndedUp(l) \in Draft /\ SameGoal(EndedUp(l), l) /\ EndedUp(l).due = l.due
BY DEF EndedUp, Draft, SameGoal

LEMMA ByFacts ==
  ASSUME NEW l \in Draft, NEW at \in {"later", "ripe"}
  PROVE  By(l, at) \in Draft /\ SameGoal(By(l, at), l) /\ By(l, at).due # "none"
BY DEF By, Draft, SameGoal

LEMMA SoonFacts ==
  ASSUME NEW l \in Draft
  PROVE  Soon(l) \in Draft /\ SameGoal(Soon(l), l) /\ Soon(l).due # "none"
<1>1. PICK e : e = EndedUp(l)
  OBVIOUS
<1>2. e \in Draft /\ SameGoal(e, l)
  BY <1>1, EndedUpFacts
<1>3. PICK at \in {"later", "ripe"} : at = IF e.attempts = 0 THEN "ripe" ELSE "later"
  OBVIOUS
<1>4. Soon(l) = By(e, at)
  BY <1>1, <1>3 DEF Soon
<1>5. By(e, at) \in Draft /\ SameGoal(By(e, at), e) /\ By(e, at).due # "none"
  BY <1>2, ByFacts
<1> QED
  BY <1>2, <1>4, <1>5 DEF SameGoal

LEMMA ConfirmedFacts ==
  ASSUME NEW l \in Draft
  PROVE  Confirmed(l) \in Draft /\ SameGoal(Confirmed(l), l)
BY DEF Confirmed, Draft, SameGoal

LEMMA DownFacts ==
  ASSUME NEW l \in Draft
  PROVE  /\ Down(l) \in Draft /\ ~Down(l).connected
         /\ Down(l).info = l.info /\ Down(l).due = l.due
         /\ Down(l).reallocating = l.reallocating
         /\ Down(l).rejoining = l.rejoining
         /\ Down(l).bumped = l.bumped /\ Down(l).hand = l.hand
         /\ Down(l).failed = l.failed
BY DEF Down, Draft

LEMMA OverFacts ==
  ASSUME NEW l \in Draft
  PROVE  /\ Over(l) \in Draft /\ ~Over(l).connected
         /\ Over(l).info = NoInfo /\ Over(l).due = l.due
         /\ Over(l).reallocating = l.reallocating
         /\ Over(l).rejoining = l.rejoining
         /\ Over(l).bumped /\ Over(l).hand = l.hand
BY NoInfoIsInfo DEF Over, Down, Draft

LEMMA HandAgainFacts ==
  ASSUME NEW l \in Draft
  PROVE  /\ HandAgain(l) \in Draft
         /\ l.info = NoInfo => HandAgain(l) = l
         /\ l.info # NoInfo =>
               /\ HandAgain(l).bumped /\ HandAgain(l).hand
               /\ HandAgain(l).info = l.info
               /\ HandAgain(l).connected = l.connected
               /\ HandAgain(l).reallocating = l.reallocating
               /\ HandAgain(l).rejoining = l.rejoining
               /\ HandAgain(l).due = l.due
BY ZenonT(60) DEF HandAgain, Draft

-----------------------------------------------------------------------------
(* What every event leaves the link in. *)

(* Only a connection that stands is handed to the driver; while there is   *)
(* none because the server or the session went, a join is due.             *)
Sound(l) ==
    /\ l \in Draft
    /\ l.hand => l.bumped /\ l.info # NoInfo
    /\ l.reallocating \/ l.rejoining => l.info = NoInfo /\ l.due # "none"
    /\ l.connected => l.info # NoInfo

(* No connection works, no attempt in flight counts, and a join is due. *)
Broken(l) == Sound(l) /\ l.bumped /\ ~l.connected /\ l.due # "none"

LEMMA LostBroken ==
  ASSUME NEW k, Sound(k)
  PROVE  Broken(Lost(k)) /\ Lost(k).info = k.info
<1>1. PICK d : d = Down([k EXCEPT !.bumped = TRUE])
  OBVIOUS
<1>2. PICK b : b = [k EXCEPT !.bumped = TRUE]
  OBVIOUS
<1>3. /\ b \in Draft /\ b.bumped /\ b.hand = k.hand /\ b.info = k.info /\ b.due = k.due
      /\ b.reallocating = k.reallocating /\ b.rejoining = k.rejoining
  BY <1>2 DEF Sound, Draft
<1>4. /\ d \in Draft /\ ~d.connected /\ d.info = k.info /\ d.due = k.due
      /\ d.reallocating = k.reallocating /\ d.rejoining = k.rejoining
      /\ d.bumped /\ d.hand = k.hand
  BY <1>1, <1>2, <1>3, DownFacts
<1>5. PICK e : e = EndedUp(d)
  OBVIOUS
<1>6. e \in Draft /\ SameGoal(e, d)
  BY <1>4, <1>5, EndedUpFacts
<1>7. Lost(k) = IF k.info = NoInfo
                THEN IF k.reallocating THEN d ELSE Soon(d)
                ELSE IF e.attempts = 0
                THEN HandAgain(By([e EXCEPT !.attempts = 1], "later"))
                ELSE By(e, "later")
  BY <1>1, <1>5 DEF Lost
<1>8. CASE k.info = NoInfo /\ k.reallocating
  <2>1. Lost(k) = d
    BY <1>7, <1>8
  <2> QED
    BY <1>4, <1>8, <2>1 DEF Sound, Broken
<1>9. CASE k.info = NoInfo /\ ~k.reallocating
  <2>1. PICK s : s = Soon(d)
    OBVIOUS
  <2>2. s \in Draft /\ SameGoal(s, d) /\ s.due # "none"
    BY <1>4, <2>1, SoonFacts
  <2>3. Lost(k) = s
    BY <1>7, <1>9, <2>1
  <2> QED
    BY <1>4, <1>9, <2>2, <2>3 DEF Sound, Broken, SameGoal
<1>10. CASE k.info # NoInfo /\ e.attempts = 0
  <2>1. PICK f : f = [e EXCEPT !.attempts = 1]
    OBVIOUS
  <2>2. f \in Draft /\ SameGoal(f, e)
    BY <1>6, <2>1 DEF Draft, SameGoal
  <2>3. PICK g : g = By(f, "later")
    OBVIOUS
  <2>4. g \in Draft /\ SameGoal(g, f) /\ g.due # "none"
    BY <2>2, <2>3, ByFacts
  <2>5. Lost(k) = HandAgain(g)
    BY <1>7, <1>10, <2>1, <2>3
  <2>6. g.info = k.info /\ ~g.connected /\ g.reallocating = k.reallocating
        /\ g.rejoining = k.rejoining
    BY <1>4, <1>6, <2>2, <2>4 DEF SameGoal
  <2>7. PICK h : h = HandAgain(g)
    OBVIOUS
  <2>8. /\ h \in Draft /\ h.bumped /\ h.hand /\ h.info = k.info /\ ~h.connected
        /\ h.reallocating = k.reallocating /\ h.rejoining = k.rejoining
        /\ h.due # "none"
    BY <1>10, <2>4, <2>6, <2>7, HandAgainFacts
  <2>9. Lost(k) = h
    BY <2>5, <2>7
  <2> QED
    BY <1>10, <2>8, <2>9 DEF Sound, Broken
<1>11. CASE k.info # NoInfo /\ e.attempts # 0
  <2>1. PICK g : g = By(e, "later")
    OBVIOUS
  <2>2. g \in Draft /\ SameGoal(g, e) /\ g.due # "none"
    BY <1>6, <2>1, ByFacts
  <2>3. Lost(k) = g
    BY <1>7, <1>11, <2>1
  <2>4. /\ g.bumped /\ g.hand = k.hand /\ g.info = k.info /\ ~g.connected
        /\ g.reallocating = k.reallocating /\ g.rejoining = k.rejoining
    BY <1>4, <1>6, <2>2 DEF SameGoal
  <2> QED
    BY <1>11, <2>2, <2>3, <2>4 DEF Sound, Broken
<1> QED
  BY <1>8, <1>9, <1>10, <1>11

LEMMA StaleBroken ==
  ASSUME NEW l \in Draft, ~l.connected, ~l.hand
  PROVE  Broken(Stale(l)) /\ ~Stale(l).hand
<1>1. PICK s : s = [l EXCEPT !.info = NoInfo, !.failed = FALSE, !.bumped = TRUE,
                             !.rejoining = TRUE]
  OBVIOUS
<1>2. s \in Draft /\ s.info = NoInfo /\ s.bumped /\ ~s.connected /\ ~s.hand
  BY <1>1, NoInfoIsInfo DEF Draft
<1>3. PICK t : t = Soon(s)
  OBVIOUS
<1>4. t \in Draft /\ SameGoal(t, s) /\ t.due # "none"
  BY <1>2, <1>3, SoonFacts
<1>5. Stale(l) = t
  BY <1>1, <1>3 DEF Stale
<1> QED
  BY <1>2, <1>4, <1>5 DEF Broken, Sound, SameGoal

LEMMA InvalidBroken ==
  ASSUME NEW k, Sound(k)
  PROVE  Broken(Invalid(k))
<1>1. PICK m : m = Lost(k)
  OBVIOUS
<1>2. Broken(m)
  BY <1>1, LostBroken
<1>3. Invalid(k) = IF m.hand THEN [m EXCEPT !.failed = TRUE]
                   ELSE IF m.info # NoInfo THEN Stale(m) ELSE m
  BY <1>1 DEF Invalid
<1>4. CASE m.hand
  <2>1. PICK f : f = [m EXCEPT !.failed = TRUE]
    OBVIOUS
  <2>2. f \in Draft /\ SameGoal(f, m) /\ f.due = m.due
    BY <1>2, <2>1 DEF Broken, Sound, Draft, SameGoal
  <2>3. Invalid(k) = f
    BY <1>3, <1>4, <2>1
  <2> QED
    BY <1>2, <2>2, <2>3 DEF Broken, Sound, SameGoal
<1>5. CASE ~m.hand /\ m.info # NoInfo
  BY <1>2, <1>3, <1>5, StaleBroken DEF Broken, Sound
<1>6. CASE ~m.hand /\ m.info = NoInfo
  BY <1>2, <1>3, <1>6
<1> QED
  BY <1>4, <1>5, <1>6

LEMMA LeftBroken ==
  ASSUME NEW k, Sound(k), ~k.hand
  PROVE  Broken(Left(k)) /\ ~Left(k).hand
<1>1. PICK v : v = Over(k)
  OBVIOUS
<1>2. /\ v \in Draft /\ ~v.connected /\ v.info = NoInfo /\ v.due = k.due
      /\ v.bumped /\ ~v.hand
  BY <1>1, OverFacts DEF Sound
<1>3. PICK o : o = [v EXCEPT !.reallocating = FALSE, !.leaving = FALSE,
                             !.rejoining = FALSE]
  OBVIOUS
<1>4. /\ o \in Draft /\ ~o.connected /\ o.info = NoInfo /\ o.due = k.due
      /\ o.bumped /\ ~o.hand /\ ~o.reallocating /\ ~o.rejoining
  BY <1>2, <1>3 DEF Draft
<1>5. Left(k) = IF k.rejoining THEN o ELSE Soon(o)
  BY <1>1, <1>3 DEF Left
<1>6. CASE k.rejoining
  BY <1>4, <1>5, <1>6 DEF Broken, Sound
<1>7. CASE ~k.rejoining
  <2>1. PICK s : s = Soon(o)
    OBVIOUS
  <2>2. s \in Draft /\ SameGoal(s, o) /\ s.due # "none"
    BY <1>4, <2>1, SoonFacts
  <2> QED
    BY <1>4, <1>5, <1>7, <2>1, <2>2 DEF Broken, Sound, SameGoal
<1> QED
  BY <1>6, <1>7

LEMMA ServerGoneBroken ==
  ASSUME NEW k, Sound(k), ~k.hand
  PROVE  Broken(ServerGone(k)) /\ ~ServerGone(k).hand
<1>1. PICK v : v = Over(k)
  OBVIOUS
<1>2. /\ v \in Draft /\ ~v.connected /\ v.info = NoInfo /\ v.bumped /\ ~v.hand
  BY <1>1, OverFacts DEF Sound
<1>3. PICK e : e = EndedUp(v)
  OBVIOUS
<1>4. e \in Draft /\ SameGoal(e, v)
  BY <1>2, <1>3, EndedUpFacts
<1>5. PICK g : g = [e EXCEPT !.reallocating = TRUE, !.due = "later"]
  OBVIOUS
<1>6. /\ g \in Draft /\ ~g.connected /\ g.info = NoInfo /\ g.bumped /\ ~g.hand
      /\ g.due = "later"
  BY <1>2, <1>4, <1>5 DEF Draft, SameGoal
<1>7. ServerGone(k) = g
  BY <1>1, <1>3, <1>5 DEF ServerGone
<1> QED
  BY <1>6, <1>7 DEF Broken, Sound

LEMMA NewConnectionSound ==
  ASSUME NEW k \in Draft, NEW info \in Info, info # NoInfo
  PROVE  /\ Sound(NewConnection(k, info))
         /\ NewConnection(k, info).bumped /\ NewConnection(k, info).hand
         /\ ~NewConnection(k, info).connected
<1>1. PICK n : n = NewConnection(k, info)
  OBVIOUS
<1>2. /\ n \in Draft /\ n.bumped /\ n.hand /\ ~n.connected /\ n.info = info
      /\ ~n.reallocating /\ ~n.rejoining
  BY <1>1 DEF NewConnection, Draft
<1> QED
  BY <1>1, <1>2 DEF Sound

(* An event after which the attempts in flight still count leaves what     *)
(* they are for, and never takes a join back unless the connection works.  *)
Quiet(l, k) ==
    /\ Sound(l) /\ ~l.bumped /\ ~l.hand
    /\ l.info = k.info
    /\ l.connected \/ l.due # "none" \/ (l.due = k.due /\ l.connected = k.connected)

LEMMA ResultSound ==
  ASSUME NEW k, Sound(k), ~k.bumped, ~k.hand, k.info # NoInfo, NEW ok \in BOOLEAN
  PROVE  \/ ok /\ Quiet(Result(k, ok), k) /\ Result(k, ok).connected
         \/ /\ ~ok /\ ~Result(k, ok).connected /\ Result(k, ok).due # "none"
            /\ \/ Quiet(Result(k, ok), k)
               \/ Broken(Result(k, ok)) /\ ~Result(k, ok).hand
<1>1. CASE ok
  <2>1. PICK c : c = [k EXCEPT !.failed = FALSE, !.connected = TRUE]
    OBVIOUS
  <2>2. /\ c \in Draft /\ c.connected /\ c.info = k.info /\ ~c.bumped /\ ~c.hand
        /\ c.reallocating = k.reallocating /\ c.rejoining = k.rejoining
    BY <2>1 DEF Sound, Draft
  <2>3. PICK r : r = Confirmed(c)
    OBVIOUS
  <2>4. r \in Draft /\ SameGoal(r, c)
    BY <2>2, <2>3, ConfirmedFacts
  <2>5. Result(k, ok) = r
    BY <1>1, <2>1, <2>3 DEF Result
  <2>6. Quiet(r, k) /\ r.connected
    BY <2>2, <2>4 DEF Quiet, Sound, SameGoal
  <2> QED
    BY <1>1, <2>5, <2>6
<1>2. CASE ~ok
  <2>1. PICK d : d = Down(k)
    OBVIOUS
  <2>2. /\ d \in Draft /\ ~d.connected /\ d.info = k.info /\ ~d.bumped /\ ~d.hand
        /\ d.reallocating = k.reallocating /\ d.rejoining = k.rejoining
    BY <2>1, DownFacts DEF Sound
  <2>3. CASE k.failed
    <3>1. Result(k, ok) = Stale(d)
      BY <1>2, <2>1, <2>3 DEF Result
    <3>2. Broken(Stale(d)) /\ ~Stale(d).hand
      BY <2>2, StaleBroken
    <3> QED
      BY <1>2, <3>1, <3>2 DEF Broken
  <2>4. CASE ~k.failed
    <3>1. PICK f : f = [d EXCEPT !.failed = TRUE]
      OBVIOUS
    <3>2. f \in Draft /\ SameGoal(f, d)
      BY <2>2, <3>1 DEF Draft, SameGoal
    <3>3. PICK s : s = Soon(f)
      OBVIOUS
    <3>4. s \in Draft /\ SameGoal(s, f) /\ s.due # "none"
      BY <3>2, <3>3, SoonFacts
    <3>5. Result(k, ok) = s
      BY <1>2, <2>1, <2>4, <3>1, <3>3 DEF Result
    <3>6. /\ ~s.connected /\ s.info = k.info /\ ~s.bumped /\ ~s.hand
          /\ s.reallocating = k.reallocating /\ s.rejoining = k.rejoining
      BY <2>2, <3>2, <3>4 DEF SameGoal
    <3>7. Quiet(s, k)
      BY <3>4, <3>6 DEF Quiet, Sound
    <3> QED
      BY <1>2, <3>4, <3>5, <3>6, <3>7
  <2> QED
    BY <2>3, <2>4
<1> QED
  BY <1>1, <1>2

(* What TickJoin makes of the link when the join is taken, and otherwise. *)
LEMMA JoinSound ==
  ASSUME NEW k, Sound(k), ~k.bumped, ~k.hand,
         NEW l, l = HandAgain([k EXCEPT !.attempts = 1, !.due = "later",
                                        !.leaving = FALSE])
  PROVE  /\ Sound(l) /\ l.info = k.info /\ l.connected = k.connected /\ l.due = "later"
         /\ l.bumped = l.hand
<1>1. PICK j : j = [k EXCEPT !.attempts = 1, !.due = "later", !.leaving = FALSE]
  OBVIOUS
<1>2. /\ j \in Draft /\ j.info = k.info /\ j.connected = k.connected /\ j.due = "later"
      /\ j.reallocating = k.reallocating /\ j.rejoining = k.rejoining
      /\ ~j.bumped /\ ~j.hand /\ j.bumped = j.hand
  BY <1>1 DEF Sound, Draft
<1>3. l = HandAgain(j)
  BY <1>1
<1>4. CASE k.info = NoInfo
  <2>1. l = j
    BY <1>2, <1>3, <1>4, HandAgainFacts
  <2> QED
    BY <1>2, <2>1 DEF Sound
<1>5. CASE k.info # NoInfo
  <2>1. /\ l \in Draft /\ l.bumped /\ l.hand /\ l.info = k.info /\ l.connected = k.connected
        /\ l.reallocating = k.reallocating /\ l.rejoining = k.rejoining
        /\ l.due = "later"
    BY <1>2, <1>3, <1>5, HandAgainFacts
  <2>2. l.bumped = l.hand
    BY <2>1 DEF Draft
  <2> QED
    BY <1>5, <2>1, <2>2 DEF Sound
<1> QED
  BY <1>4, <1>5

LEMMA ConfirmedSound ==
  ASSUME NEW k, Sound(k), ~k.bumped, ~k.hand, k.connected
  PROVE  Quiet(Confirmed(k), k) /\ Confirmed(k).connected
<1>1. PICK c : c = Confirmed(k)
  OBVIOUS
<1>2. c \in Draft /\ SameGoal(c, k)
  BY <1>1, ConfirmedFacts DEF Sound
<1> QED
  BY <1>1, <1>2 DEF Quiet, Sound, SameGoal

-----------------------------------------------------------------------------
(* The requests to the driver. *)

Named == Names \cup {0}
Dispatched == [t : {"READY", "RESUMED", "STATE", "LEFT", "SERVER"}, id : Named]
Request == [connect : BOOLEAN, info : Info, newest : BOOLEAN]
LeaveRequest == [connect |-> FALSE, info |-> NoInfo, newest |-> FALSE]

LEMMA OutdatedRequests ==
  ASSUME NEW q \in Seq(Request),
         NEW o, o = [i \in DOMAIN q |-> [q[i] EXCEPT !.newest = FALSE]]
  PROVE  o \in Seq(Request) /\ Len(o) = Len(q)
         /\ \A i \in 1 .. Len(o) : ~o[i].newest
<1>1. PICK n \in Nat : n = Len(q)
  OBVIOUS
<1>2. DOMAIN q = 1 .. n /\ q \in [1 .. n -> Request]
  BY <1>1
<1>3. ASSUME NEW i \in 1 .. n
      PROVE  /\ [q[i] EXCEPT !.newest = FALSE] \in Request
             /\ ~ [q[i] EXCEPT !.newest = FALSE].newest
  <2>1. PICK r \in Request : r = q[i]
    BY <1>2, <1>3
  <2>2. [r EXCEPT !.newest = FALSE] \in Request /\ ~ [r EXCEPT !.newest = FALSE].newest
    BY DEF Request
  <2> QED
    BY <2>1, <2>2
<1>4. o \in [1 .. n -> Request] /\ \A i \in 1 .. n : ~o[i].newest
  BY <1>2, <1>3
<1>5. o \in Seq(Request) /\ Len(o) = n
  BY <1>1, <1>4
<1> QED
  BY <1>1, <1>4, <1>5

(* What Become leaves: the requests in flight as they were, all outdated,  *)
(* or all outdated with one more at the end that counts.                   *)
NextRequests(q, l, also) ==
    (IF ~l.bumped THEN q
     ELSE [i \in DOMAIN q |-> [q[i] EXCEPT !.newest = FALSE]])
    \o (IF l.hand THEN <<[connect |-> TRUE, info |-> l.info, newest |-> TRUE]>>
                  ELSE <<>>)
    \o also

LEMMA NextRequestsFacts ==
  ASSUME NEW q \in Seq(Request), NEW l, Sound(l),
         NEW also \in {<<>>, <<LeaveRequest>>},
         also # <<>> => l.bumped /\ ~l.hand,
         NEW p, p = NextRequests(q, l, also)
  PROVE  /\ p \in Seq(Request)
         /\ ~l.bumped => p = q
         /\ l.bumped /\ ~l.hand => \A i \in 1 .. Len(p) : ~p[i].newest
         /\ l.hand =>
               /\ Len(p) \in Nat \ {0}
               /\ p[Len(p)] =
                     [connect |-> TRUE, info |-> l.info, newest |-> TRUE]
               /\ \A i \in 1 .. Len(p) - 1 : ~p[i].newest
<1>1. PICK o : o = [i \in DOMAIN q |-> [q[i] EXCEPT !.newest = FALSE]]
  OBVIOUS
<1>2. o \in Seq(Request) /\ Len(o) = Len(q)
      /\ \A i \in 1 .. Len(o) : ~o[i].newest
  BY <1>1, OutdatedRequests
<1>3. PICK n : n = [connect |-> TRUE, info |-> l.info, newest |-> TRUE]
  OBVIOUS
<1>4. n \in Request
  BY <1>3 DEF Request, Sound, Draft
<1>5. PICK b : b = IF ~l.bumped THEN q ELSE o
  OBVIOUS
<1>6. PICK h : h = IF l.hand THEN <<n>> ELSE <<>>
  OBVIOUS
<1>7. p = b \o h \o also
  BY <1>1, <1>3, <1>5, <1>6 DEF NextRequests
<1>8. b \in Seq(Request)
  BY <1>2, <1>5
<1>9. CASE ~l.bumped
  <2>1. also = <<>> /\ ~l.hand
    BY <1>9 DEF Sound
  <2>2. b = q /\ h = <<>>
    BY <1>5, <1>6, <1>9, <2>1
  <2>3. p = q
    BY <1>7, <2>1, <2>2
  <2> QED
    BY <1>7, <1>9, <2>1, <2>3
<1>10. CASE l.bumped /\ ~l.hand
  <2>1. b = o /\ h = <<>>
    BY <1>5, <1>6, <1>10
  <2>2. p = o \o also
    BY <1>2, <1>7, <2>1
  <2>3. CASE also = <<>>
    <3>1. p = o
      BY <1>2, <2>2, <2>3
    <3> QED
      BY <1>2, <1>7, <1>10, <3>1
  <2>4. CASE also = <<LeaveRequest>>
    <3>1. PICK r : r = LeaveRequest
      OBVIOUS
    <3>2. r \in Request /\ ~r.newest
      BY <3>1, NoInfoIsInfo DEF LeaveRequest, Request
    <3>3. p = Append(o, r)
      BY <1>2, <2>2, <2>4, <3>1, <3>2
    <3>4. Append(o, r) \in Seq(Request) /\ Len(Append(o, r)) = Len(o) + 1
      BY <1>2, <3>2
    <3>5. ASSUME NEW i \in 1 .. Len(o) + 1 PROVE ~Append(o, r)[i].newest
      <4>1. CASE i = Len(o) + 1
        <5>1. Append(o, r)[i] = r
          BY <1>2, <3>2, <4>1
        <5> QED
          BY <3>2, <5>1
      <4>2. CASE i # Len(o) + 1
        <5>1. i \in 1 .. Len(o) /\ Append(o, r)[i] = o[i]
          BY <1>2, <3>2, <4>2
        <5> QED
          BY <1>2, <5>1
      <4> QED
        BY <4>1, <4>2
    <3> QED
      BY <1>7, <1>10, <3>3, <3>4, <3>5
  <2> QED
    BY <2>3, <2>4
<1>11. CASE l.hand
  <2>1. l.bumped /\ also = <<>>
    BY <1>11 DEF Sound
  <2>2. b = o /\ h = <<n>>
    BY <1>5, <1>6, <1>11, <2>1
  <2>3. p = Append(o, n)
    BY <1>2, <1>4, <1>7, <2>1, <2>2
  <2>4. PICK m \in Nat : m = Len(o)
    BY <1>2
  <2>5. /\ Append(o, n) \in Seq(Request) /\ Len(Append(o, n)) = m + 1
        /\ Append(o, n)[m + 1] = n
        /\ \A i \in 1 .. m : Append(o, n)[i] = o[i]
    BY <1>2, <1>4, <2>4
  <2>6. m + 1 \in Nat \ {0} /\ (m + 1) - 1 = m
    BY <2>4
  <2>7. /\ p \in Seq(Request) /\ Len(p) = m + 1
        /\ p[m + 1] = n
        /\ \A i \in 1 .. m : ~p[i].newest
    BY <1>2, <2>3, <2>4, <2>5
  <2> QED
    BY <1>3, <1>7, <1>11, <2>1, <2>6, <2>7
<1> QED
  BY <1>9, <1>10, <1>11

-----------------------------------------------------------------------------
(* The inductive invariant. *)

TInv ==
    /\ Sound(link) /\ ~link.bumped /\ ~link.hand
    /\ session \in Named /\ server \in Named /\ member \in Named /\ host \in Named
    /\ dispatches \in Seq(Dispatched)
    /\ commands \in Seq({"join", "leave"})
    /\ requests \in Seq(Request)
    /\ answer \in {"none", "ok", "error"}
    /\ losses \in Seq({"lost", "gone"})
    /\ target \in Info
    /\ live \in BOOLEAN /\ up \in BOOLEAN /\ calm \in BOOLEAN
    /\ trouble \in 0 .. MaxTrouble

(* At most one attempt counts: the last request to the driver, or, once    *)
(* the driver has taken all of them, the one that was answered.  It is for *)
(* the connection the link means.  While the link counts as connected      *)
(* nothing but such an attempt is on its way, and a success that is not    *)
(* yet known to the task is one of that connection.                        *)
AttemptInv ==
    /\ \A i \in 1 .. Len(requests) : requests[i].newest =>
          /\ i = Len(requests) /\ requests[i].connect
          /\ requests[i].info = link.info /\ link.info # NoInfo
    /\ answer # "none" => requests = <<>> /\ link.info # NoInfo
    /\ link.connected => requests = <<>> \/ requests[Len(requests)].newest
    /\ answer = "ok" => (up /\ target = link.info) \/ losses # <<>>

VInv == TInv /\ AttemptInv

ReadyComes == \E i \in DOMAIN dispatches : dispatches[i].t = "READY"

(* What every step of the task does to the link, the attempts and the      *)
(* goal, whatever it is that the task takes.                               *)
TaskStep ==
    \E l \in Draft, also \in {<<>>, <<LeaveRequest>>} :
      /\ Sound(l)
      /\ also # <<>> => l.bumped /\ ~l.hand
      /\ requests' = NextRequests(requests, l, also)
      /\ link' = [l EXCEPT !.bumped = FALSE, !.hand = FALSE]
      /\ ~l.bumped => l.info = link.info /\ losses' = losses
      /\ IF l.bumped THEN answer' = "none" ELSE answer' \in {answer, "none"}
      /\ l.connected =>
            \/ /\ link.connected /\ losses' = losses
               /\ l.hand \/ (~l.bumped /\ answer' = answer)
            \/ answer = "ok" /\ ~l.bumped
      /\ \/ l.connected \/ l.due # "none" \/ l.hand
         \/ /\ ~l.bumped /\ l.due = link.due /\ l.connected = link.connected
            /\ answer' = answer
            /\ ReadyComes => ReadyComes'
      /\ UNCHANGED <<up, target>>

LEMMA LinkFacts ==
  ASSUME NEW l, Sound(l), NEW m, m = [l EXCEPT !.bumped = FALSE, !.hand = FALSE]
  PROVE  /\ Sound(m) /\ ~m.bumped /\ ~m.hand
         /\ m.info = l.info /\ m.connected = l.connected /\ m.due = l.due
<1>1. /\ m \in Draft /\ ~m.bumped /\ ~m.hand
      /\ m.info = l.info /\ m.connected = l.connected /\ m.due = l.due
      /\ m.reallocating = l.reallocating /\ m.rejoining = l.rejoining
  BY DEF Sound, Draft
<1> QED
  BY <1>1 DEF Sound

LEMMA TaskStepKeeps ==
  ASSUME VInv, ConnectedIsTrue, GoalIsPursued, TaskStep
  PROVE  /\ Sound(link') /\ ~link'.bumped /\ ~link'.hand
         /\ requests' \in Seq(Request)
         /\ AttemptInv' /\ ConnectedIsTrue' /\ GoalIsPursued'
<1>1. PICK l \in Draft, also \in {<<>>, <<LeaveRequest>>} :
      /\ Sound(l)
      /\ also # <<>> => l.bumped /\ ~l.hand
      /\ requests' = NextRequests(requests, l, also)
      /\ link' = [l EXCEPT !.bumped = FALSE, !.hand = FALSE]
      /\ ~l.bumped => l.info = link.info /\ losses' = losses
      /\ IF l.bumped THEN answer' = "none" ELSE answer' \in {answer, "none"}
      /\ l.connected =>
            \/ /\ link.connected /\ losses' = losses
               /\ l.hand \/ (~l.bumped /\ answer' = answer)
            \/ answer = "ok" /\ ~l.bumped
      /\ \/ l.connected \/ l.due # "none" \/ l.hand
         \/ /\ ~l.bumped /\ l.due = link.due /\ l.connected = link.connected
            /\ answer' = answer
            /\ ReadyComes => ReadyComes'
      /\ UNCHANGED <<up, target>>
  BY DEF TaskStep
<1>2. PICK q \in Seq(Request) : q = requests
  BY DEF VInv, TInv
<1>3. PICK p : p = requests'
  OBVIOUS
<1>4. p = NextRequests(q, l, also)
  BY <1>1, <1>2, <1>3
<1>5. /\ p \in Seq(Request)
      /\ ~l.bumped => p = q
      /\ l.bumped /\ ~l.hand => \A i \in 1 .. Len(p) : ~p[i].newest
      /\ l.hand =>
            /\ Len(p) \in Nat \ {0}
            /\ p[Len(p)] = [connect |-> TRUE, info |-> l.info, newest |-> TRUE]
            /\ \A i \in 1 .. Len(p) - 1 : ~p[i].newest
  BY <1>1, <1>4, NextRequestsFacts
<1>6. PICK m : m = link'
  OBVIOUS
<1>7. /\ Sound(m) /\ ~m.bumped /\ ~m.hand
      /\ m.info = l.info /\ m.connected = l.connected /\ m.due = l.due
  BY <1>1, <1>6, LinkFacts
<1>8. /\ \A i \in 1 .. Len(q) : q[i].newest =>
            /\ i = Len(q) /\ q[i].connect
            /\ q[i].info = link.info /\ link.info # NoInfo
      /\ answer # "none" => q = <<>> /\ link.info # NoInfo
      /\ link.connected => q = <<>> \/ q[Len(q)].newest
      /\ answer = "ok" => (up /\ target = link.info) \/ losses # <<>>
  BY <1>2 DEF VInv, AttemptInv
<1>9. AttemptInv'
  <2>1. SUFFICES
          /\ \A i \in 1 .. Len(p) : p[i].newest =>
                /\ i = Len(p) /\ p[i].connect
                /\ p[i].info = m.info /\ m.info # NoInfo
          /\ answer' # "none" => p = <<>> /\ m.info # NoInfo
          /\ m.connected => p = <<>> \/ p[Len(p)].newest
          /\ answer' = "ok" => (up' /\ target' = m.info) \/ losses' # <<>>
    BY <1>3, <1>6 DEF AttemptInv
  <2>2. CASE ~l.bumped
    <3>1. p = q /\ m.info = link.info /\ losses' = losses /\ answer' \in {answer, "none"}
          /\ up' = up /\ target' = target
      BY <1>1, <1>5, <1>7, <2>2
    <3>2. m.connected => link.connected \/ answer = "ok"
      BY <1>1, <1>7
    <3> QED
      BY <1>8, <3>1, <3>2
  <2>3. CASE l.bumped /\ ~l.hand
    <3>1. answer' = "none" /\ ~m.connected
      BY <1>1, <1>7, <2>3
    <3> QED
      BY <1>5, <2>3, <3>1
  <2>4. CASE l.bumped /\ l.hand
    <3>1. answer' = "none" /\ m.info = l.info /\ l.info # NoInfo
      BY <1>1, <1>7, <2>4 DEF Sound
    <3>2. PICK k \in Nat \ {0} : k = Len(p)
      BY <1>5, <2>4
    <3>3. /\ p[k].connect /\ p[k].info = l.info /\ p[k].newest
          /\ \A i \in 1 .. k - 1 : ~p[i].newest
      BY <1>5, <2>4, <3>2
    <3>4. \A i \in 1 .. k : i = k \/ i \in 1 .. k - 1
      BY <3>2
    <3> QED
      BY <3>1, <3>2, <3>3, <3>4
  <2> QED
    BY <2>2, <2>3, <2>4
<1>10. ConnectedIsTrue'
  <2>1. SUFFICES ASSUME m.connected
                 PROVE  (up' /\ target' = m.info) \/ losses' # <<>> \/ p # <<>>
                        \/ answer' # "none"
    BY <1>3, <1>6 DEF ConnectedIsTrue
  <2>2. CASE l.hand
    BY <1>5, <2>2
  <2>3. CASE ~l.bumped /\ answer = "ok"
    <3>1. l.info = link.info /\ losses' = losses /\ up' = up /\ target' = target
      BY <1>1, <2>3
    <3> QED
      BY <1>7, <1>8, <2>3, <3>1
  <2>4. CASE ~l.bumped /\ link.connected /\ answer' = answer
    <3>1. l.info = link.info /\ losses' = losses /\ up' = up /\ target' = target /\ p = q
      BY <1>1, <1>5, <2>4
    <3>2. (up /\ target = link.info) \/ losses # <<>> \/ q # <<>> \/ answer # "none"
      BY <1>2, <2>4 DEF ConnectedIsTrue
    <3> QED
      BY <1>7, <2>4, <3>1, <3>2
  <2> QED
    BY <1>1, <1>7, <2>1, <2>2, <2>3, <2>4
<1>11. GoalIsPursued'
  <2>1. SUFFICES \/ m.connected \/ m.due # "none" \/ answer' # "none"
                 \/ \E i \in DOMAIN p : p[i].newest
                 \/ ReadyComes'
    BY <1>3, <1>6 DEF GoalIsPursued, ReadyComes
  <2>2. CASE l.connected \/ l.due # "none"
    BY <1>7, <2>2
  <2>3. CASE l.hand
    <3>1. PICK k \in Nat \ {0} : k = Len(p)
      BY <1>5, <2>3
    <3>2. k \in DOMAIN p /\ p[k].newest
      BY <1>5, <2>3, <3>1
    <3> QED
      BY <3>2
  <2>4. CASE /\ ~l.bumped /\ l.due = link.due /\ l.connected = link.connected
             /\ answer' = answer
             /\ ReadyComes => ReadyComes'
    <3>1. \/ link.connected \/ link.due # "none" \/ answer # "none"
          \/ \E i \in DOMAIN q : q[i].newest
          \/ ReadyComes
      BY <1>2 DEF GoalIsPursued, ReadyComes
    <3>2. p = q
      BY <1>5, <2>4
    <3> QED
      BY <1>7, <2>4, <3>1, <3>2
  <2> QED
    BY <1>1, <2>2, <2>3, <2>4
<1> QED
  BY <1>3, <1>5, <1>6, <1>7, <1>9, <1>10, <1>11

-----------------------------------------------------------------------------
(* The steps of the task. *)

LEMMA QuietRequests ==
  ASSUME NEW q \in Seq(Request), NEW l, ~l.bumped, ~l.hand
  PROVE  NextRequests(q, l, <<>>) = q
BY DEF NextRequests

LEMMA AnswerIsTaskStep ==
  ASSUME VInv, TakeAnswer
  PROVE  TaskStep
<1>1. Sound(link) /\ ~link.bumped /\ ~link.hand /\ answer \in {"none", "ok", "error"}
  BY DEF VInv, TInv
<1>2. answer # "none" /\ link.info # NoInfo
  BY DEF TakeAnswer, VInv, AttemptInv
<1>3. PICK ok \in BOOLEAN : ok = (answer = "ok")
  OBVIOUS
<1>4. PICK l : l = Result(link, ok)
  OBVIOUS
<1>5. /\ requests' = NextRequests(requests, l, <<>>)
      /\ link' = [l EXCEPT !.bumped = FALSE, !.hand = FALSE]
      /\ answer' = "none"
      /\ UNCHANGED <<up, target, losses>>
  BY <1>3, <1>4 DEF TakeAnswer, Become, NextRequests, driverVars
<1>6. \/ ok /\ Quiet(l, link) /\ l.connected
      \/ /\ ~ok /\ ~l.connected /\ l.due # "none"
         /\ Quiet(l, link) \/ (Broken(l) /\ ~l.hand)
  BY <1>1, <1>2, <1>4, ResultSound
<1>7. CASE ok
  <2>1. Sound(l) /\ l \in Draft /\ ~l.bumped /\ l.info = link.info /\ l.connected
    BY <1>6, <1>7 DEF Quiet, Sound
  <2>2. answer = "ok"
    BY <1>3, <1>7
  <2> QED
    BY <1>5, <2>1, <2>2 DEF TaskStep
<1>8. CASE ~ok
  <2>1. /\ Sound(l) /\ l \in Draft /\ ~l.connected
        /\ ~l.bumped => l.info = link.info
    BY <1>6, <1>8 DEF Quiet, Sound, Broken
  <2>2. l.due # "none"
    BY <1>6, <1>8
  <2> QED
    BY <1>5, <2>1, <2>2 DEF TaskStep
<1> QED
  BY <1>7, <1>8

(* A link in which nothing works and no attempt counts. *)
LEMMA BrokenIsTaskStep ==
  ASSUME NEW l, Broken(l), NEW also \in {<<>>, <<LeaveRequest>>},
         also # <<>> => ~l.hand,
         requests' = NextRequests(requests, l, also),
         link' = [l EXCEPT !.bumped = FALSE, !.hand = FALSE],
         answer' = "none", UNCHANGED <<up, target>>
  PROVE  TaskStep
BY DEF Broken, Sound, TaskStep

LEMMA LossIsTaskStep ==
  ASSUME VInv, TakeLoss
  PROVE  TaskStep
<1>1. Sound(link)
  BY DEF VInv, TInv
<1>2. CASE Head(losses) = "gone"
  <2>1. PICK l : l = Invalid(link)
    OBVIOUS
  <2>2. Broken(l)
    BY <1>1, <2>1, InvalidBroken
  <2>3. /\ requests' = NextRequests(requests, l, <<>>)
        /\ link' = [l EXCEPT !.bumped = FALSE, !.hand = FALSE]
        /\ IF l.bumped THEN answer' = "none" ELSE UNCHANGED answer
        /\ UNCHANGED <<up, target>>
    BY <1>2, <2>1 DEF TakeLoss, Become, Outdates, NextRequests, driverVars
  <2>4. answer' = "none"
    BY <2>2, <2>3 DEF Broken
  <2> QED
    BY <2>2, <2>3, <2>4, BrokenIsTaskStep
<1>3. CASE Head(losses) # "gone"
  <2>1. PICK l : l = Lost(link)
    OBVIOUS
  <2>2. Broken(l)
    BY <1>1, <2>1, LostBroken
  <2>3. /\ requests' = NextRequests(requests, l, <<>>)
        /\ link' = [l EXCEPT !.bumped = FALSE, !.hand = FALSE]
        /\ IF l.bumped THEN answer' = "none" ELSE UNCHANGED answer
        /\ UNCHANGED <<up, target>>
    BY <1>3, <2>1 DEF TakeLoss, Become, Outdates, NextRequests, driverVars
  <2>4. answer' = "none"
    BY <2>2, <2>3 DEF Broken
  <2> QED
    BY <2>2, <2>3, <2>4, BrokenIsTaskStep
<1> QED
  BY <1>2, <1>3

LEMMA TickIsTaskStep ==
  ASSUME VInv, TickLeave \/ TickJoin \/ Ripen \/ Age
  PROVE  TaskStep
<1>1. Sound(link) /\ ~link.bumped /\ ~link.hand /\ requests \in Seq(Request)
  BY DEF VInv, TInv
<1>2. ASSUME NEW l \in Draft, SameGoal(l, link), l.due = link.due \/ l.due # "none",
             link' = l,
             UNCHANGED <<dispatches, requests, answer, losses, up, target>>
      PROVE  TaskStep
  <2>1. /\ ~l.bumped /\ ~l.hand /\ l.info = link.info /\ l.connected = link.connected
        /\ l.reallocating = link.reallocating /\ l.rejoining = link.rejoining
    BY <1>1, <1>2 DEF SameGoal
  <2>2. Sound(l)
    BY <1>1, <1>2, <2>1 DEF Sound
  <2>3. requests' = NextRequests(requests, l, <<>>)
    BY <1>1, <1>2, <2>1, QuietRequests
  <2>4. link' = [l EXCEPT !.bumped = FALSE, !.hand = FALSE]
    BY <1>2, <2>1 DEF Draft
  <2>5. ReadyComes => ReadyComes'
    BY <1>2 DEF ReadyComes
  <2> QED
    BY <1>2, <2>1, <2>2, <2>3, <2>4, <2>5 DEF TaskStep
<1>3. CASE TickLeave
  <2>1. PICK l : l = [link EXCEPT !.leaving = TRUE]
    OBVIOUS
  <2>2. l \in Draft /\ SameGoal(l, link) /\ l.due = link.due
    BY <1>1, <2>1 DEF Sound, Draft, SameGoal
  <2>3. link' = l /\ UNCHANGED <<dispatches, requests, answer, losses, up, target>>
    BY <1>3, <2>1 DEF TickLeave, driverVars
  <2> QED
    BY <1>2, <2>2, <2>3
<1>4. CASE Ripen
  <2>1. PICK l : l = [link EXCEPT !.due = "ripe"]
    OBVIOUS
  <2>2. l \in Draft /\ SameGoal(l, link) /\ l.due = "ripe"
    BY <1>1, <2>1 DEF Sound, Draft, SameGoal
  <2>3. link' = l /\ UNCHANGED <<dispatches, requests, answer, losses, up, target>>
    BY <1>4, <2>1 DEF Ripen, driverVars
  <2> QED
    BY <1>2, <2>2, <2>3
<1>5. CASE Age
  <2>1. PICK l : l = [link EXCEPT !.upSince = "lasted"]
    OBVIOUS
  <2>2. l \in Draft /\ SameGoal(l, link) /\ l.due = link.due
    BY <1>1, <2>1 DEF Sound, Draft, SameGoal
  <2>3. link' = l /\ UNCHANGED <<dispatches, requests, answer, losses, up, target>>
    BY <1>5, <2>1 DEF Age, driverVars
  <2> QED
    BY <1>2, <2>2, <2>3
<1>6. CASE TickJoin
  <2>1. CASE link.connected /\ link.attempts > 0
    <3>1. PICK l : l = Confirmed(link)
      OBVIOUS
    <3>2. Quiet(l, link) /\ l.connected
      BY <1>1, <2>1, <3>1, ConfirmedSound
    <3>3. /\ requests' = NextRequests(requests, l, <<>>)
          /\ link' = [l EXCEPT !.bumped = FALSE, !.hand = FALSE]
          /\ IF l.bumped THEN answer' = "none" ELSE UNCHANGED answer
          /\ UNCHANGED <<losses, up, target>>
      BY <1>6, <2>1, <3>1 DEF TickJoin, Become, Outdates, NextRequests, driverVars
    <3>4. answer' = answer
      BY <3>2, <3>3 DEF Quiet
    <3> QED
      BY <2>1, <3>2, <3>3, <3>4 DEF TaskStep, Quiet, Sound
  <2>2. CASE ~ (link.connected /\ link.attempts > 0)
    <3>1. PICK l : l = HandAgain([link EXCEPT !.attempts = 1, !.due = "later",
                                              !.leaving = FALSE])
      OBVIOUS
    <3>2. /\ Sound(l) /\ l.info = link.info /\ l.connected = link.connected
          /\ l.due = "later" /\ l.bumped = l.hand
      BY <1>1, <3>1, JoinSound
    <3>3. /\ requests' = NextRequests(requests, l, <<>>)
          /\ link' = [l EXCEPT !.bumped = FALSE, !.hand = FALSE]
          /\ IF l.bumped THEN answer' = "none" ELSE UNCHANGED answer
          /\ UNCHANGED <<losses, up, target>>
      BY <1>6, <2>2, <3>1 DEF TickJoin, Become, Outdates, NextRequests, driverVars
    <3> QED
      BY <3>2, <3>3 DEF TaskStep, Sound
  <2> QED
    BY <2>1, <2>2
<1> QED
  BY <1>3, <1>4, <1>5, <1>6

LEMMA DispatchIsTaskStep ==
  ASSUME VInv, TakeDispatch
  PROVE  TaskStep /\ session' \in Named /\ server' \in Named
         /\ dispatches' \in Seq(Dispatched)
<1>1. /\ Sound(link) /\ ~link.bumped /\ ~link.hand /\ requests \in Seq(Request)
      /\ dispatches \in Seq(Dispatched) /\ session \in Named /\ server \in Named
  BY DEF VInv, TInv
<1>2. dispatches # <<>> /\ dispatches' = Tail(dispatches)
      /\ UNCHANGED <<losses, up, target>>
  BY DEF TakeDispatch, driverVars
<1> DEFINE d == Head(dispatches)
           s == CASE d.t = "STATE" -> d.id [] d.t \in {"READY", "LEFT"} -> 0
                  [] OTHER -> session
           v == CASE d.t = "SERVER" -> d.id [] d.t \in {"READY", "LEFT"} -> 0
                  [] OTHER -> server
           old == d.t = "LEFT" /\ session # 0 /\ d.id # session
           gone == d.t = "SERVER" /\ d.id = 0
           connect == d.t \in {"STATE", "SERVER"} /\ s # 0 /\ v # 0
           also == IF gone THEN <<LeaveRequest>> ELSE <<>>
           l == CASE d.t = "READY" ->
                        [link EXCEPT !.due = "ripe", !.attempts = 0]
                  [] d.t = "RESUMED" ->
                        IF link.connected THEN link ELSE Soon(link)
                  [] d.t = "LEFT" -> IF old THEN link ELSE Left(link)
                  [] gone -> ServerGone(link)
                  [] connect ->
                        NewConnection(link, [session |-> s, server |-> v])
                  [] OTHER -> link
<1>3. /\ Become(l, also) /\ Outdates(l)
      /\ session' = IF old THEN session ELSE s
      /\ server' = IF old THEN server ELSE IF connect THEN 0 ELSE v
  BY Zenon DEF TakeDispatch, LeaveRequest
<1>4. d \in Dispatched
  BY <1>1, <1>2
<1>5. d.t \in {"READY", "RESUMED", "STATE", "LEFT", "SERVER"} /\ d.id \in Named
  BY <1>4 DEF Dispatched
<1> HIDE DEF d
<1>6. s \in Named /\ v \in Named
  BY <1>1, <1>5 DEF Named
<1>7. /\ d.t = "READY" => l = [link EXCEPT !.due = "ripe", !.attempts = 0]
      /\ d.t = "RESUMED" => l = IF link.connected THEN link ELSE Soon(link)
      /\ d.t = "LEFT" => l = IF old THEN link ELSE Left(link)
  OBVIOUS
<1>8. gone => l = ServerGone(link)
  OBVIOUS
<1> HIDE DEF s, v
<1>9. d.t \in {"STATE", "SERVER"} /\ ~gone /\ connect
        => l = NewConnection(link, [session |-> s, server |-> v])
  OBVIOUS
<1>10. d.t \in {"STATE", "SERVER"} /\ ~gone /\ ~connect => l = link
  OBVIOUS
<1>11. also = IF gone THEN <<LeaveRequest>> ELSE <<>>
  OBVIOUS
<1>12. server' \in Named /\ session' \in Named
  BY <1>1, <1>3, <1>6 DEF Named
<1> HIDE DEF l, also
<1>13. /\ requests' = NextRequests(requests, l, also)
       /\ link' = [l EXCEPT !.bumped = FALSE, !.hand = FALSE]
       /\ IF l.bumped THEN answer' = "none" ELSE answer' = answer
  BY <1>3 DEF Become, Outdates, NextRequests
<1>14. session' \in Named /\ server' \in Named /\ dispatches' \in Seq(Dispatched)
  BY <1>1, <1>2, <1>12
<1>15. d.t # "READY" => (ReadyComes => ReadyComes')
  <2>1. SUFFICES ASSUME d.t # "READY", NEW i \in DOMAIN dispatches,
                        dispatches[i].t = "READY"
                 PROVE  ReadyComes'
    BY DEF ReadyComes
  <2>2. PICK n \in Nat : n = Len(dispatches)
    BY <1>1
  <2>3. i \in 1 .. n /\ i # 1
    BY <1>1, <1>2, <2>1, <2>2 DEF d
  <2>4. PICK j \in Nat : j = i - 1 /\ j + 1 = i /\ j \in 1 .. n - 1
    BY <2>3
  <2>5. j \in DOMAIN Tail(dispatches) /\ Tail(dispatches)[j] = dispatches[j + 1]
    BY <1>1, <1>2, <2>2, <2>4
  <2> QED
    BY <1>2, <2>1, <2>4, <2>5 DEF ReadyComes
<1>16. ASSUME l = link, also = <<>>, d.t # "READY" PROVE TaskStep
  <2>1. /\ Sound(l) /\ l \in Draft /\ ~l.bumped /\ ~l.hand
    BY <1>1, <1>16 DEF Sound
  <2>2. answer' = answer
    BY <1>13, <2>1
  <2> QED
    BY <1>2, <1>13, <1>15, <1>16, <2>1, <2>2 DEF TaskStep
<1>17. ASSUME l \in Draft, SameGoal(l, link), l.due # "none", also = <<>> PROVE TaskStep
  <2>1. /\ Sound(l) /\ ~l.bumped /\ ~l.hand /\ l.info = link.info
        /\ l.connected = link.connected
    BY <1>1, <1>17 DEF Sound, SameGoal
  <2>2. answer' = answer
    BY <1>13, <2>1
  <2> QED
    BY <1>2, <1>13, <1>17, <2>1, <2>2 DEF TaskStep
<1>18. ASSUME Broken(l), also \in {<<>>, <<LeaveRequest>>}, also # <<>> => ~l.hand
       PROVE  TaskStep
  <2>1. answer' = "none"
    BY <1>13, <1>18 DEF Broken
  <2> QED
    BY <1>2, <1>13, <1>18, <2>1, BrokenIsTaskStep
<1>19. CASE d.t = "READY"
  <2>1. l = [link EXCEPT !.due = "ripe", !.attempts = 0] /\ also = <<>>
    BY <1>7, <1>11, <1>19
  <2>2. l \in Draft /\ SameGoal(l, link) /\ l.due = "ripe"
    BY <1>1, <2>1 DEF Sound, Draft, SameGoal
  <2> QED
    BY <1>17, <2>1, <2>2, <1>14
<1>20. CASE d.t = "RESUMED"
  <2>1. l = (IF link.connected THEN link ELSE Soon(link)) /\ also = <<>>
    BY <1>7, <1>11, <1>20
  <2>2. CASE link.connected
    BY <1>14, <1>16, <1>20, <2>1, <2>2
  <2>3. CASE ~link.connected
    <3>1. l \in Draft /\ SameGoal(l, link) /\ l.due # "none"
      BY <1>1, <2>1, <2>3, SoonFacts DEF Sound
    <3> QED
      BY <1>14, <1>17, <2>1, <3>1
  <2> QED
    BY <2>2, <2>3
<1>21. CASE d.t = "LEFT"
  <2>1. l = (IF old THEN link ELSE Left(link)) /\ also = <<>>
    BY <1>7, <1>11, <1>21
  <2>2. CASE old
    BY <1>14, <1>16, <1>21, <2>1, <2>2
  <2>3. CASE ~old
    <3>1. Broken(l)
      BY <1>1, <2>1, <2>3, LeftBroken
    <3> QED
      BY <1>14, <1>18, <2>1, <3>1
  <2> QED
    BY <2>2, <2>3
<1>22. CASE gone
  <2>1. l = ServerGone(link) /\ also = <<LeaveRequest>>
    BY <1>8, <1>11, <1>22
  <2>2. Broken(l) /\ ~l.hand
    BY <1>1, <2>1, ServerGoneBroken
  <2> QED
    BY <1>14, <1>18, <2>1, <2>2
<1>23. CASE d.t \in {"STATE", "SERVER"} /\ ~gone /\ connect
  <2>1. PICK info : info = [session |-> s, server |-> v]
    OBVIOUS
  <2>2. l = NewConnection(link, info) /\ also = <<>>
    BY <1>9, <1>11, <1>23, <2>1
  <2>3. info \in Info /\ info # NoInfo
    BY <1>6, <1>23, <2>1 DEF Info, NoInfo, Named
  <2>4. Sound(l) /\ l.bumped /\ l.hand /\ ~l.connected
    BY <1>1, <2>2, <2>3, NewConnectionSound DEF Sound
  <2> QED
    BY <1>2, <1>13, <1>14, <2>2, <2>4 DEF TaskStep, Sound
<1>24. CASE d.t \in {"STATE", "SERVER"} /\ ~gone /\ ~connect
  <2>1. l = link /\ also = <<>>
    BY <1>10, <1>11, <1>24
  <2> QED
    BY <1>14, <1>16, <1>24, <2>1
<1> QED
  BY <1>5, <1>19, <1>20, <1>21, <1>22, <1>23, <1>24

-----------------------------------------------------------------------------
(* The driver. *)

LEMMA RequestServed ==
  ASSUME VInv, ConnectedIsTrue, GoalIsPursued, ServeRequest
  PROVE  TInv' /\ AttemptInv' /\ ConnectedIsTrue' /\ GoalIsPursued'
<1>1. PICK q \in Seq(Request) : q = requests
  BY DEF VInv, TInv
<1>2. PICK n \in Nat \ {0} : n = Len(q)
  BY <1>1 DEF ServeRequest
<1>3. PICK r \in Request : r = q[1]
  BY <1>1, <1>2
<1>4. PICK p : p = Tail(q)
  OBVIOUS
<1>5. /\ p \in Seq(Request) /\ Len(p) = n - 1
      /\ \A i \in 1 .. n - 1 : p[i] = q[i + 1]
  BY <1>1, <1>2, <1>4
<1>6. /\ \A i \in 1 .. n : q[i].newest =>
            /\ i = n /\ q[i].connect
            /\ q[i].info = link.info /\ link.info # NoInfo
      /\ answer = "none"
      /\ link.connected => q[n].newest
  BY <1>1, <1>2 DEF VInv, AttemptInv
<1>7. /\ requests' = p
      /\ UNCHANGED <<link, session, server, dispatches, commands, losses, member,
                     host, live, calm>>
      /\ \/ ~r.connect /\ up' = FALSE /\ target' = NoInfo /\ UNCHANGED <<answer, trouble>>
         \/ /\ r.connect /\ target' = r.info
            /\ \/ /\ up' = ((up /\ target = r.info) \/ Works(r.info))
                  /\ UNCHANGED trouble
               \/ up' = FALSE /\ Trouble
            /\ answer' = IF r.newest THEN IF up' THEN "ok" ELSE "error" ELSE answer
  BY <1>1, <1>2, <1>3, <1>4 DEF ServeRequest, taskVars, discordVars
<1>8. up' \in BOOLEAN /\ target' \in Info
  <2>1. r.info \in Info
    BY <1>3 DEF Request
  <2>2. up' = FALSE \/ up' = ((up /\ target = r.info) \/ Works(r.info))
    BY <1>7
  <2>3. up' \in BOOLEAN
    BY <2>2
  <2> QED
    BY <1>7, <2>1, <2>3, NoInfoIsInfo
<1>9. trouble' \in 0 .. MaxTrouble
  <2>1. trouble \in 0 .. MaxTrouble /\ MaxTrouble \in Nat
    BY VoiceAssumption DEF VInv, TInv
  <2>2. trouble' = trouble \/ (trouble < MaxTrouble /\ trouble' = trouble + 1)
    BY <1>7 DEF Trouble
  <2> QED
    BY <2>1, <2>2
<1>10. /\ r.newest => /\ n = 1 /\ answer' \in {"ok", "error"}
                      /\ answer' = "ok" => up'
                      /\ target' = link.info /\ link.info # NoInfo
       /\ ~r.newest => answer' = "none"
  <2>1. CASE r.newest
    <3>1. 1 \in 1 .. n
      OBVIOUS
    <3>2. n = 1 /\ r.connect /\ r.info = link.info /\ link.info # NoInfo
      BY <1>3, <1>6, <2>1, <3>1
    <3> QED
      BY <1>7, <2>1, <3>2
  <2>2. CASE ~r.newest
    BY <1>6, <1>7, <2>2
  <2> QED
    BY <2>1, <2>2
<1>11. TInv'
  <2>1. /\ Sound(link) /\ ~link.bumped /\ ~link.hand
        /\ session \in Named /\ server \in Named /\ member \in Named /\ host \in Named
        /\ dispatches \in Seq(Dispatched) /\ commands \in Seq({"join", "leave"})
        /\ losses \in Seq({"lost", "gone"}) /\ live \in BOOLEAN /\ calm \in BOOLEAN
    BY DEF VInv, TInv
  <2>2. answer' \in {"none", "ok", "error"}
    BY <1>10
  <2>3. Sound(link)' = Sound(link)
    BY <1>7 DEF Sound
  <2> QED
    BY <1>5, <1>7, <1>8, <1>9, <2>1, <2>2, <2>3 DEF TInv
<1>12. AttemptInv'
  <2>1. SUFFICES
          /\ \A i \in 1 .. Len(p) : p[i].newest =>
                /\ i = Len(p) /\ p[i].connect
                /\ p[i].info = link.info /\ link.info # NoInfo
          /\ answer' # "none" => p = <<>> /\ link.info # NoInfo
          /\ link.connected => p = <<>> \/ p[Len(p)].newest
          /\ answer' = "ok" => (up' /\ target' = link.info) \/ losses' # <<>>
    BY <1>7 DEF AttemptInv
  <2>2. ASSUME NEW i \in 1 .. n - 1, p[i].newest
        PROVE  /\ i = n - 1 /\ p[i].connect
               /\ p[i].info = link.info /\ link.info # NoInfo
    <3>1. i + 1 \in 1 .. n
      OBVIOUS
    <3>2. q[i + 1].newest
      BY <1>5, <2>2
    <3> QED
      BY <1>5, <1>6, <3>1, <3>2
  <2>3. answer' # "none" => p = <<>> /\ link.info # NoInfo
    BY <1>5, <1>10
  <2>4. link.connected => p = <<>> \/ p[n - 1].newest
    <3>1. CASE n = 1
      BY <1>5, <3>1
    <3>2. CASE n # 1
      <4>1. n - 1 \in 1 .. n - 1 /\ (n - 1) + 1 = n
        BY <3>2
      <4>2. p[n - 1] = q[n]
        BY <1>5, <4>1
      <4> QED
        BY <1>6, <4>2
    <3> QED
      BY <3>1, <3>2
  <2> QED
    BY <1>5, <1>10, <2>2, <2>3, <2>4
<1>13. ConnectedIsTrue'
  <2>1. SUFFICES ASSUME link.connected PROVE requests' # <<>> \/ answer' # "none"
    BY <1>7 DEF ConnectedIsTrue
  <2>2. q[n].newest
    BY <1>6, <2>1
  <2>3. CASE n = 1
    BY <1>3, <1>10, <2>2, <2>3
  <2>4. CASE n # 1
    BY <1>5, <1>7, <2>4
  <2> QED
    BY <2>3, <2>4
<1>14. GoalIsPursued'
  <2>1. SUFFICES \/ link.connected \/ link.due # "none" \/ answer' # "none"
                 \/ \E i \in DOMAIN p : p[i].newest
                 \/ ReadyComes
    BY <1>7 DEF GoalIsPursued, ReadyComes
  <2>2. \/ link.connected \/ link.due # "none"
        \/ \E i \in DOMAIN q : q[i].newest
        \/ ReadyComes
    BY <1>1, <1>6 DEF GoalIsPursued, ReadyComes
  <2>3. ASSUME NEW i \in DOMAIN q, q[i].newest
        PROVE  answer' # "none" \/ \E j \in DOMAIN p : p[j].newest
    <3>1. CASE i = 1
      BY <1>3, <1>10, <2>3, <3>1
    <3>2. CASE i # 1
      <4>1. i \in 1 .. n
        BY <1>1, <1>2, <2>3
      <4>2. PICK j \in 1 .. n - 1 : j + 1 = i
        <5>1. i - 1 \in 1 .. n - 1 /\ (i - 1) + 1 = i
          BY <3>2, <4>1
        <5> QED
          BY <5>1
      <4>3. j \in DOMAIN p /\ p[j] = q[i]
        BY <1>5, <4>2
      <4> QED
        BY <2>3, <4>3
    <3> QED
      BY <3>1, <3>2
  <2> QED
    BY <2>2, <2>3
<1> QED
  BY <1>11, <1>12, <1>13, <1>14

LEMMA ConnectionLost ==
  ASSUME VInv, ConnectedIsTrue, GoalIsPursued, Lose
  PROVE  TInv' /\ AttemptInv' /\ ConnectedIsTrue' /\ GoalIsPursued'
<1>1. /\ up' = FALSE
      /\ \E w \in {"lost", "gone"} : losses' = Append(losses, w)
      /\ UNCHANGED <<link, session, server, dispatches, commands, requests, answer,
                     member, host, live, target, calm>>
      /\ trouble' = trouble \/ (trouble < MaxTrouble /\ trouble' = trouble + 1)
  BY DEF Lose, Trouble, taskVars, discordVars
<1>2. losses \in Seq({"lost", "gone"})
  BY DEF VInv, TInv
<1>3. losses' \in Seq({"lost", "gone"}) /\ losses' # <<>>
  BY <1>1, <1>2
<1>4. trouble' \in 0 .. MaxTrouble
  BY <1>1, VoiceAssumption DEF VInv, TInv
<1>5. up' \in BOOLEAN
  BY <1>1
<1>6. Sound(link)' = Sound(link)
  BY <1>1 DEF Sound
<1>7. TInv'
  BY <1>1, <1>3, <1>4, <1>5, <1>6 DEF VInv, TInv
<1>8. AttemptInv'
  BY <1>1, <1>3 DEF VInv, AttemptInv
<1>9. ConnectedIsTrue'
  BY <1>3 DEF ConnectedIsTrue
<1>10. GoalIsPursued'
  BY <1>1 DEF GoalIsPursued
<1> QED
  BY <1>7, <1>8, <1>9, <1>10

-----------------------------------------------------------------------------
(* Discord, and what remains of every step. *)

(* Nothing of the task or of the driver changes, and no dispatch is lost. *)
WorldStep ==
    /\ UNCHANGED <<link, session, server, requests, answer, losses, target, up>>
    /\ dispatches' \in Seq(Dispatched)
    /\ ReadyComes => ReadyComes'
    /\ commands' \in Seq({"join", "leave"})
    /\ member' \in Named /\ host' \in Named /\ live' \in BOOLEAN
    /\ calm' \in BOOLEAN /\ trouble' \in 0 .. MaxTrouble

LEMMA WorldStepKeeps ==
  ASSUME VInv, ConnectedIsTrue, GoalIsPursued, WorldStep
  PROVE  TInv' /\ AttemptInv' /\ ConnectedIsTrue' /\ GoalIsPursued'
<1>1. Sound(link)' = Sound(link)
  BY DEF WorldStep, Sound
<1>2. TInv'
  BY <1>1 DEF WorldStep, VInv, TInv
<1>3. AttemptInv' /\ ConnectedIsTrue'
  BY DEF WorldStep, VInv, AttemptInv, ConnectedIsTrue
<1>4. GoalIsPursued'
  BY DEF WorldStep, GoalIsPursued, ReadyComes
<1> QED
  BY <1>2, <1>3, <1>4

LEMMA LeastName ==
  ASSUME NEW S \in SUBSET Names, S # {}
  PROVE  Min(S) \in Names
<1> DEFINE R == OpToRel(<, Nat)
<1>1. IsWellFoundedOn(R, Nat)
  BY NatLessThanWellFounded
<1>2. \A x, y \in Nat : x < y => <<x, y>> \in R
  BY DEF OpToRel
<1>3. S \in SUBSET Nat
  BY VoiceAssumption
<1> HIDE DEF R
<1>4. PICK x \in S : \A y \in S : ~ (<<y, x>> \in R)
  BY <1>1, <1>3, WFMin
<1>5. \A y \in S : ~ (y < x)
  BY <1>2, <1>3, <1>4
<1>6. \A y \in S : x <= y
  BY <1>3, <1>5
<1> QED
  BY <1>6 DEF Min

LEMMA UnusedName == Unused # {} => Min(Unused) \in Names
<1>1. Unused \in SUBSET Names
  BY DEF Unused
<1> QED
  BY <1>1, LeastName

LEMMA DispatchGrows ==
  ASSUME VInv, NEW ds \in Seq(Dispatched), dispatches' = dispatches \o ds
  PROVE  dispatches' \in Seq(Dispatched) /\ (ReadyComes => ReadyComes')
<1>1. PICK q \in Seq(Dispatched) : q = dispatches
  BY DEF VInv, TInv
<1>2. /\ q \o ds \in Seq(Dispatched)
      /\ \A i \in DOMAIN q : i \in DOMAIN (q \o ds) /\ (q \o ds)[i] = q[i]
  BY <1>1
<1>3. dispatches' = q \o ds
  BY <1>1
<1>4. ASSUME NEW i \in DOMAIN dispatches, dispatches[i].t = "READY" PROVE ReadyComes'
  <2>1. i \in DOMAIN (q \o ds) /\ (q \o ds)[i].t = "READY"
    BY <1>1, <1>2, <1>4
  <2> QED
    BY <1>3, <2>1 DEF ReadyComes
<1> QED
  BY <1>2, <1>3, <1>4 DEF ReadyComes

LEMMA WorldKinds ==
  ASSUME VInv,
         \/ LoseCommands \/ ServeJoin \/ ServeLeave \/ Kick \/ TakeServer
         \/ Allocate \/ LoseServer \/ Resume \/ NewSession \/ CalmDown \/ UNCHANGED vars
  PROVE  WorldStep
<1> USE DEF taskVars, driverVars, discordVars, worldVars
<1>1. /\ member \in Named /\ host \in Named /\ live \in BOOLEAN /\ calm \in BOOLEAN
      /\ trouble \in 0 .. MaxTrouble /\ dispatches \in Seq(Dispatched)
      /\ commands \in Seq({"join", "leave"}) /\ 0 \in Named
  BY DEF VInv, TInv, Named
<1>2. commands # <<>> => Tail(commands) \in Seq({"join", "leave"})
  BY <1>1
<1>3. ASSUME dispatches' = dispatches
      PROVE  dispatches' \in Seq(Dispatched) /\ (ReadyComes => ReadyComes')
  BY <1>1, <1>3 DEF ReadyComes
<1>4. trouble < MaxTrouble /\ trouble' = trouble + 1 => trouble' \in 0 .. MaxTrouble
  BY <1>1, VoiceAssumption
<1>5. ASSUME NEW t \in {"READY", "RESUMED", "STATE", "LEFT", "SERVER"}, NEW n \in Named
      PROVE  [t |-> t, id |-> n] \in Dispatched
  BY DEF Dispatched
<1>6. ASSUME NEW a \in Dispatched PROVE <<a>> \in Seq(Dispatched)
  OBVIOUS
<1>7. ASSUME NEW a \in Dispatched, NEW b \in Dispatched PROVE <<a, b>> \in Seq(Dispatched)
  OBVIOUS
<1>8. CASE ServeJoin
  <2>1. commands # <<>> /\ commands' = Tail(commands)
        /\ UNCHANGED <<link, session, server, requests, answer, losses, target, up,
                       calm, trouble>>
    BY <1>8 DEF ServeJoin
  <2>2. CASE member = 0
    <3>1. PICK n : n = Min(Unused)
      OBVIOUS
    <3>2. Unused # {}
      <4>1. Cardinality(Unused) >= 1
        BY <1>8, <2>2 DEF ServeJoin
      <4>2. Cardinality({}) = 0
        BY FS_EmptySet
      <4> QED
        BY <4>1, <4>2
    <3>3. n \in Named
      BY <3>1, <3>2, UnusedName DEF Named
    <3>4. PICK a, b : a = [t |-> "STATE", id |-> n] /\ b = [t |-> "SERVER", id |-> n]
      OBVIOUS
    <3>5. /\ member' = n /\ host' = n /\ live' = TRUE
          /\ dispatches' = dispatches \o <<a, b>> \/ dispatches' = dispatches \o <<b, a>>
      BY <1>8, <2>2, <3>1, <3>4 DEF ServeJoin, Dispatch
    <3>6. a \in Dispatched /\ b \in Dispatched
      BY <1>5, <3>3, <3>4
    <3>7. dispatches' \in Seq(Dispatched) /\ (ReadyComes => ReadyComes')
      BY <1>7, <3>5, <3>6, DispatchGrows
    <3>8. live' \in BOOLEAN
      BY <3>5
    <3> QED
      BY <1>1, <1>2, <2>1, <3>3, <3>5, <3>7, <3>8 DEF WorldStep
  <2>3. CASE member # 0
    <3>1. PICK a : a = [t |-> "STATE", id |-> member]
      OBVIOUS
    <3>2. a \in Dispatched
      BY <1>1, <1>5, <3>1
    <3>3. /\ UNCHANGED <<member, host, live>>
          /\ dispatches' = dispatches \o <<>> \/ dispatches' = dispatches \o <<a>>
      BY <1>8, <2>3, <3>1 DEF ServeJoin, Dispatch
    <3>4. <<>> \in Seq(Dispatched) /\ <<a>> \in Seq(Dispatched)
      BY <1>6, <3>2
    <3>5. dispatches' \in Seq(Dispatched) /\ (ReadyComes => ReadyComes')
      BY <3>3, <3>4, DispatchGrows
    <3> QED
      BY <1>1, <1>2, <2>1, <3>3, <3>5 DEF WorldStep
  <2> QED
    BY <2>2, <2>3
<1>9. PICK left : left = [t |-> "LEFT", id |-> member]
  OBVIOUS
<1>10. left \in Dispatched /\ <<left>> \in Seq(Dispatched)
  BY <1>1, <1>5, <1>6, <1>9
<1>11. CASE ServeLeave
  <2>1. /\ commands # <<>> /\ commands' = Tail(commands)
        /\ member' = 0 /\ host' = 0 /\ live' = FALSE
        /\ dispatches' = dispatches \/ dispatches' = dispatches \o <<left>>
        /\ UNCHANGED <<link, session, server, requests, answer, losses, target, up,
                       calm, trouble>>
    BY <1>9, <1>11 DEF ServeLeave, Dispatch
  <2>2. dispatches' \in Seq(Dispatched) /\ (ReadyComes => ReadyComes')
    BY <1>3, <1>10, <2>1, DispatchGrows
  <2>3. live' \in BOOLEAN
    BY <2>1
  <2> QED
    BY <1>1, <1>2, <2>1, <2>2, <2>3 DEF WorldStep
<1>12. CASE Kick
  <2>1. /\ trouble < MaxTrouble /\ trouble' = trouble + 1
        /\ member' = 0 /\ host' = 0 /\ live' = FALSE
        /\ dispatches' = dispatches \o <<left>>
        /\ UNCHANGED <<link, session, server, commands, requests, answer, losses,
                       target, up, calm>>
    BY <1>9, <1>12 DEF Kick, Dispatch, Trouble
  <2>2. dispatches' \in Seq(Dispatched) /\ (ReadyComes => ReadyComes')
    BY <1>10, <2>1, DispatchGrows
  <2>3. live' \in BOOLEAN
    BY <2>1
  <2> QED
    BY <1>1, <1>4, <2>1, <2>2, <2>3 DEF WorldStep
<1>13. CASE TakeServer
  <2>1. PICK a : a = [t |-> "SERVER", id |-> 0]
    OBVIOUS
  <2>2. /\ trouble < MaxTrouble /\ trouble' = trouble + 1
        /\ member' = member /\ host' = 0 /\ live' = FALSE
        /\ dispatches' = dispatches \o <<a>>
        /\ UNCHANGED <<link, session, server, commands, requests, answer, losses,
                       target, up, calm>>
    BY <1>13, <2>1 DEF TakeServer, Dispatch, Trouble
  <2>3. <<a>> \in Seq(Dispatched)
    BY <1>1, <1>5, <1>6, <2>1
  <2>4. dispatches' \in Seq(Dispatched) /\ (ReadyComes => ReadyComes')
    BY <2>2, <2>3, DispatchGrows
  <2>5. live' \in BOOLEAN
    BY <2>2
  <2> QED
    BY <1>1, <1>4, <2>2, <2>4, <2>5 DEF WorldStep
<1>14. CASE Allocate
  <2>1. PICK n : n = Min(Unused)
    OBVIOUS
  <2>2. n \in Named
    BY <1>14, <2>1, UnusedName DEF Allocate, Named
  <2>3. PICK a : a = [t |-> "SERVER", id |-> n]
    OBVIOUS
  <2>4. /\ host' = n /\ live' = TRUE /\ member' = member
        /\ dispatches' = dispatches \o <<a>>
        /\ UNCHANGED <<link, session, server, commands, requests, answer, losses,
                       target, up, calm, trouble>>
    BY <1>14, <2>1, <2>3 DEF Allocate, Dispatch
  <2>5. <<a>> \in Seq(Dispatched)
    BY <1>5, <1>6, <2>2, <2>3
  <2>6. dispatches' \in Seq(Dispatched) /\ (ReadyComes => ReadyComes')
    BY <2>4, <2>5, DispatchGrows
  <2>7. live' \in BOOLEAN
    BY <2>4
  <2> QED
    BY <1>1, <2>2, <2>4, <2>6, <2>7 DEF WorldStep
<1>15. CASE LoseServer
  <2>1. /\ trouble < MaxTrouble /\ trouble' = trouble + 1 /\ live' = FALSE
        /\ UNCHANGED <<link, session, server, dispatches, commands, requests, answer,
                       losses, member, host, target, up, calm>>
    BY <1>15 DEF LoseServer, Trouble
  <2>2. live' \in BOOLEAN
    BY <2>1
  <2> QED
    BY <1>1, <1>3, <1>4, <2>1, <2>2 DEF WorldStep
<1>16. CASE Resume
  <2>1. PICK a : a = [t |-> "RESUMED", id |-> 0]
    OBVIOUS
  <2>2. /\ trouble < MaxTrouble /\ trouble' = trouble + 1
        /\ dispatches' = dispatches \o <<a>>
        /\ UNCHANGED <<link, session, server, commands, requests, answer, losses,
                       member, host, live, target, up, calm>>
    BY <1>16, <2>1 DEF Resume, Dispatch, Trouble
  <2>3. <<a>> \in Seq(Dispatched)
    BY <1>1, <1>5, <1>6, <2>1
  <2>4. dispatches' \in Seq(Dispatched) /\ (ReadyComes => ReadyComes')
    BY <2>2, <2>3, DispatchGrows
  <2> QED
    BY <1>1, <1>4, <2>2, <2>4 DEF WorldStep
<1>17. CASE NewSession
  <2>1. PICK a : a = [t |-> "READY", id |-> 0]
    OBVIOUS
  <2>2. /\ trouble < MaxTrouble /\ trouble' = trouble + 1
        /\ member' = 0 /\ host' = 0 /\ live' = FALSE
        /\ \E ds \in {<<>>, <<left>>} : dispatches' = dispatches \o (<<a>> \o ds)
        /\ UNCHANGED <<link, session, server, commands, requests, answer, losses,
                       target, up, calm>>
    BY <1>9, <1>17, <2>1 DEF NewSession, Dispatch, Trouble
  <2>3. <<a>> \in Seq(Dispatched) /\ <<>> \in Seq(Dispatched)
    BY <1>1, <1>5, <1>6, <2>1
  <2>4. PICK ds \in Seq(Dispatched) : dispatches' = dispatches \o (<<a>> \o ds)
    BY <1>10, <2>2, <2>3
  <2>5. <<a>> \o ds \in Seq(Dispatched)
    BY <2>3, <2>4
  <2>6. dispatches' \in Seq(Dispatched) /\ (ReadyComes => ReadyComes')
    BY <2>4, <2>5, DispatchGrows
  <2>7. live' \in BOOLEAN
    BY <2>2
  <2> QED
    BY <1>1, <1>4, <2>2, <2>6, <2>7 DEF WorldStep
<1>18. CASE CalmDown
  <2>1. /\ calm' = TRUE
        /\ UNCHANGED <<link, session, server, dispatches, commands, requests, answer,
                       losses, member, host, live, target, up, trouble>>
    BY <1>18 DEF CalmDown
  <2>2. calm' \in BOOLEAN
    BY <2>1
  <2> QED
    BY <1>1, <1>3, <2>1, <2>2 DEF WorldStep
<1>19. CASE UNCHANGED vars
  <2>1. UNCHANGED <<link, session, server, dispatches, commands, requests, answer,
                    losses, member, host, live, target, up, trouble, calm>>
    BY <1>19 DEF vars
  <2> QED
    BY <1>1, <1>3, <2>1 DEF WorldStep
<1>20. CASE LoseCommands
  <2>1. /\ trouble < MaxTrouble /\ trouble' = trouble + 1
        /\ \E i \in DOMAIN commands : commands' = SubSeq(commands, 1, i - 1)
        /\ UNCHANGED <<link, session, server, dispatches, requests, answer,
                       losses, member, host, live, target, up, calm>>
    BY <1>20 DEF LoseCommands, Trouble
  <2>2. commands' \in Seq({"join", "leave"})
    <3>1. PICK q \in Seq({"join", "leave"}) : q = commands
      BY <1>1
    <3>2. PICK i \in 1 .. Len(q) : commands' = SubSeq(q, 1, i - 1)
      BY <2>1, <3>1
    <3>3. \A k \in 1 .. i - 1 : q[k] \in {"join", "leave"}
      OBVIOUS
    <3> QED
      BY <3>2, <3>3, SubSeqProperties
  <2> QED
    BY <1>1, <1>3, <1>4, <2>1, <2>2 DEF WorldStep
<1> QED
  BY <1>8, <1>11, <1>12, <1>13, <1>14, <1>15, <1>16, <1>17, <1>18, <1>19, <1>20

-----------------------------------------------------------------------------
(* The theorems. *)

IInv == TInv /\ AttemptInv /\ ConnectedIsTrue /\ GoalIsPursued

LEMMA TaskKeeps ==
  ASSUME IInv,
         TakeDispatch \/ TakeAnswer \/ TakeLoss \/ TickLeave \/ TickJoin \/ Ripen \/ Age
  PROVE  IInv'
<1> USE DEF discordVars, driverVars, worldVars
<1>1. VInv /\ ConnectedIsTrue /\ GoalIsPursued
  BY DEF IInv, VInv
<1>2. TaskStep
  BY <1>1, DispatchIsTaskStep, AnswerIsTaskStep, LossIsTaskStep, TickIsTaskStep
<1>3. /\ Sound(link') /\ ~link'.bumped /\ ~link'.hand
      /\ requests' \in Seq(Request)
      /\ AttemptInv' /\ ConnectedIsTrue' /\ GoalIsPursued'
  BY <1>1, <1>2, TaskStepKeeps
<1>4. /\ session \in Named /\ server \in Named /\ member \in Named /\ host \in Named
      /\ dispatches \in Seq(Dispatched) /\ commands \in Seq({"join", "leave"})
      /\ losses \in Seq({"lost", "gone"}) /\ answer \in {"none", "ok", "error"}
      /\ target \in Info /\ live \in BOOLEAN /\ up \in BOOLEAN /\ calm \in BOOLEAN
      /\ trouble \in 0 .. MaxTrouble
  BY <1>1 DEF VInv, TInv
<1>5. UNCHANGED <<member, host, live, target, up, calm, trouble>>
  BY DEF TakeDispatch, TakeAnswer, TakeLoss, TickLeave, TickJoin, Ripen, Age
<1>6. answer' \in {"none", "ok", "error"}
  BY <1>2, <1>4 DEF TaskStep
<1>7. session' \in Named /\ server' \in Named /\ dispatches' \in Seq(Dispatched)
  <2>1. CASE TakeDispatch
    BY <1>1, <2>1, DispatchIsTaskStep
  <2>2. CASE ~TakeDispatch
    <3>1. UNCHANGED <<session, server, dispatches>>
      BY <2>2 DEF TakeAnswer, TakeLoss, TickLeave, TickJoin, Ripen, Age
    <3> QED
      BY <1>4, <3>1
  <2> QED
    BY <2>1, <2>2
<1>8. commands' \in Seq({"join", "leave"})
  <2>1. \/ commands' = commands
        \/ \E u \in {"join", "leave"} : commands' \in {<<u>>, Append(commands, u)}
    BY DEF TakeDispatch, TakeAnswer, TakeLoss, TickLeave, TickJoin, Ripen, Age, Send
  <2>2. ASSUME NEW S, NEW q \in Seq(S), NEW u \in S
        PROVE  <<u>> \in Seq(S) /\ Append(q, u) \in Seq(S)
    OBVIOUS
  <2> QED
    BY <1>4, <2>1, <2>2
<1>9. losses' \in Seq({"lost", "gone"})
  <2>1. losses' = losses \/ (losses # <<>> /\ losses' = Tail(losses))
    BY DEF TakeDispatch, TakeAnswer, TakeLoss, TickLeave, TickJoin, Ripen, Age
  <2>2. losses \in Seq({"lost", "gone"})
    BY <1>4
  <2>3. losses # <<>> => Tail(losses) \in Seq({"lost", "gone"})
    BY <2>2, HeadTailProperties
  <2> QED
    BY <2>1, <2>2, <2>3
<1>10. TInv'
  BY <1>3, <1>4, <1>5, <1>6, <1>7, <1>8, <1>9 DEF TInv, Sound
<1> QED
  BY <1>3, <1>10 DEF IInv

LEMMA StepKeeps == IInv /\ [Next]_vars => IInv'
<1> SUFFICES ASSUME IInv, [Next]_vars PROVE IInv'
  OBVIOUS
<1>1. VInv /\ ConnectedIsTrue /\ GoalIsPursued
  BY DEF IInv, VInv
<1>2. CASE \/ TakeDispatch \/ TakeAnswer \/ TakeLoss \/ TickLeave \/ TickJoin
           \/ Ripen \/ Age
  BY <1>2, TaskKeeps
<1>3. CASE \/ LoseCommands \/ ServeJoin \/ ServeLeave \/ Kick \/ TakeServer
           \/ Allocate \/ LoseServer \/ Resume \/ NewSession \/ CalmDown \/ UNCHANGED vars
  BY <1>1, <1>3, WorldKinds, WorldStepKeeps DEF IInv
<1>4. CASE ServeRequest
  BY <1>1, <1>4, RequestServed DEF IInv
<1>5. CASE Lose
  BY <1>1, <1>5, ConnectionLost DEF IInv
<1> QED
  BY <1>2, <1>3, <1>4, <1>5 DEF Next

LEMMA InitHolds == Init => IInv
<1> SUFFICES ASSUME Init PROVE IInv
  OBVIOUS
<1>1. /\ link = NewLink /\ session = 0 /\ server = 0
      /\ commands = <<>> /\ requests = <<>> /\ answer = "none" /\ losses = <<>>
      /\ member = 0 /\ host = 0 /\ live = FALSE /\ target = NoInfo /\ up = FALSE
      /\ trouble = 0 /\ calm = FALSE
  BY DEF Init
<1>2. /\ link \in Draft /\ ~link.bumped /\ ~link.hand /\ ~link.connected
      /\ ~link.reallocating /\ ~link.rejoining
  BY <1>1, NoInfoIsInfo DEF NewLink, Draft
<1>3. PICK a : a = [t |-> "READY", id |-> 0]
  OBVIOUS
<1>4. a \in Dispatched /\ a.t = "READY" /\ dispatches = <<a>>
  BY <1>3 DEF Init, Dispatched, Named
<1>5. dispatches \in Seq(Dispatched) /\ 1 \in DOMAIN dispatches /\ dispatches[1].t = "READY"
  BY <1>4
<1>6. live \in BOOLEAN /\ up \in BOOLEAN /\ calm \in BOOLEAN
  BY <1>1
<1>7. 0 \in Named /\ 0 \in 0 .. MaxTrouble
  BY VoiceAssumption DEF Named
<1>8. Sound(link)
  BY <1>2 DEF Sound
<1>9. TInv
  BY <1>1, <1>2, <1>5, <1>6, <1>7, <1>8, NoInfoIsInfo DEF TInv
<1>10. AttemptInv
  BY <1>1, <1>2 DEF AttemptInv
<1>11. ConnectedIsTrue
  BY <1>2 DEF ConnectedIsTrue
<1>12. GoalIsPursued
  BY <1>5 DEF GoalIsPursued
<1> QED
  BY <1>9, <1>10, <1>11, <1>12 DEF IInv

LEMMA SpecIInv == Spec => []IInv
BY InitHolds, StepKeeps, PTL DEF Spec

(* What run keeps of the link, the channels between the gateway, the task  *)
(* and the driver, and Discord itself stays in range.                      *)
THEOREM TypeCorrect == Spec => []TypeOK
<1>1. ASSUME IInv PROVE TypeOK
  <2>1. /\ Sound(link) /\ ~link.bumped /\ ~link.hand
        /\ session \in Named /\ server \in Named /\ member \in Named /\ host \in Named
        /\ dispatches \in Seq(Dispatched) /\ commands \in Seq({"join", "leave"})
        /\ requests \in Seq(Request) /\ answer \in {"none", "ok", "error"}
        /\ losses \in Seq({"lost", "gone"}) /\ target \in Info
        /\ live \in BOOLEAN /\ up \in BOOLEAN /\ calm \in BOOLEAN
        /\ trouble \in 0 .. MaxTrouble
    BY <1>1 DEF IInv, TInv
  <2>2. link \in [connected : BOOLEAN, info : Info, reallocating : BOOLEAN,
                  failed : BOOLEAN, rejoining : BOOLEAN, leaving : BOOLEAN,
                  due : {"none", "later", "ripe"}, attempts : {0, 1},
                  upSince : {"none", "fresh", "lasted"}, bumped : {FALSE},
                  hand : {FALSE}]
    <3>1. link \in Draft /\ link.bumped = FALSE /\ link.hand = FALSE
      BY <2>1 DEF Sound, Draft
    <3> QED
      BY <3>1 DEF Draft
  <2>3. {session, server, member, host} \subseteq Names \cup {0}
    BY <2>1 DEF Named
  <2>4. ToSet(dispatches) \subseteq Dispatched
    BY <2>1 DEF ToSet
  <2>5. ToSet(commands) \subseteq {"join", "leave"} /\ ToSet(losses) \subseteq {"lost", "gone"}
    BY <2>1 DEF ToSet
  <2>6. ToSet(requests) \subseteq Request
    BY <2>1 DEF ToSet
  <2>7. {live, up, calm} \subseteq BOOLEAN
    BY <2>1, Zenon
  <2> QED
    BY <2>1, <2>2, <2>3, <2>4, <2>5, <2>6, <2>7, Zenon
    DEF TypeOK, Dispatched, Request, Named
<1> QED
  BY <1>1, SpecIInv, PTL

(* The speaker is told that the connection works only when the driver      *)
(* holds the very connection the task means, or the news to the contrary   *)
(* is on its way: no answer or loss that arrives late makes a dead         *)
(* connection look alive (Link::result, Link::lost).                       *)
THEOREM ConnectedMeansConnected == Spec => []ConnectedIsTrue
<1>1. IInv => ConnectedIsTrue
  BY DEF IInv
<1> QED
  BY <1>1, SpecIInv, PTL

(* Being in the channel is a goal that is never dropped: while no          *)
(* connection works a join is due, or the newest attempt is with the       *)
(* driver, or READY is on its way (Rejoin, Link).                          *)
THEOREM GoalNeverDropped == Spec => []GoalIsPursued
<1>1. IInv => GoalIsPursued
  BY DEF IInv
<1> QED
  BY <1>1, SpecIInv, PTL

(* The driver is never handed a connection that is over: once the bot left *)
(* the channel or its voice server went away, every attempt that counts is *)
(* for a newer one (Link::over, Link::stale, Link::server_gone).           *)
THEOREM OnlyStandingAreDialled == Spec => []OnlyStandingConnections
<1>1. ASSUME IInv PROVE OnlyStandingConnections
  <2>1. /\ link.reallocating \/ link.rejoining => link.info = NoInfo
        /\ requests \in Seq(Request)
        /\ \A i \in 1 .. Len(requests) : requests[i].newest => requests[i].info = link.info
    BY <1>1 DEF IInv, TInv, AttemptInv, Sound
  <2> QED
    BY <2>1 DEF OnlyStandingConnections
<1> QED
  BY <1>1, SpecIInv, PTL

(* When nothing is under way, no dispatch, request, answer or loss, and no  *)
(* join is due, the driver holds the connection that the last dispatches   *)
(* gave, and the speaker knows: the link never comes to rest without it.   *)
THEOREM AtRestIsConnected ==
  Spec => [](dispatches = <<>> /\ requests = <<>> /\ answer = "none" /\ losses = <<>>
               /\ link.due = "none"
               => link.connected /\ up /\ target = link.info)
<1>1. IInv => (dispatches = <<>> /\ requests = <<>> /\ answer = "none" /\ losses = <<>>
                 /\ link.due = "none"
                 => link.connected /\ up /\ target = link.info)
  BY DEF IInv, GoalIsPursued, ConnectedIsTrue
<1> QED
  BY <1>1, SpecIInv, PTL
=============================================================================
