--------------------------- MODULE FrontendProofs ---------------------------
(***************************************************************************)
(* What the browser promises for every set of cases, every page size and   *)
(* every bound.                                                            *)
(*                                                                         *)
(* Reading a case.  At most one GET is current, it was sent under the      *)
(* issued key, and what it brings back lies between what was recorded last *)
(* and what the server holds now; keys never run ahead of the refresh      *)
(* counter, so a key of the present counter belongs to a read sent after   *)
(* the last refresh.                                                       *)
(*                                                                         *)
(* The queue.  A page is held under the filter and the offset it was       *)
(* answered for, so an empty page beyond the end is never the page asked   *)
(* for once the effect on it has run; and a recovery ends on the first     *)
(* page, from which no other recovery moves.                               *)
(*                                                                         *)
(* The screen that decides.  A POST carries version 1, so an answer that   *)
(* it was recorded comes when the case has version 2; the refresh that     *)
(* follows opens a count under which nothing was asked before, so whatever *)
(* is read under it is the decided case.                                   *)
(*                                                                         *)
(* The three share no variable: every behaviour of the whole is one of     *)
(* each part.                                                              *)
(***************************************************************************)
EXTENDS MCFrontend, TLAPS, FiniteSetTheorems

-----------------------------------------------------------------------------
(* Reading a case *)

\* Nothing recorded, and nothing promised by a refresh, is newer than the server.
HistoryBehindStore ==
  \A t \in Targets : newest[t] <= store[t] /\ since[t] <= store[t]

\* No key was issued under a refresh still to come.
KeysBehindCount ==
  /\ \A q \in r.flying : q.key[2] <= r.count
  /\ r.held # NothingHeld => r.held.key[2] <= r.count

\* The current GET was sent under the issued key; its answer is no older than what
\* is recorded, nor than the last refresh if it was sent after it.
CurrentRead ==
  \A q \in r.flying : IsCurrent(r, q) =>
    /\ q.key = r.issued
    /\ q.answer = "loaded" =>
         /\ newest[q.key[1]] <= q.version /\ q.version <= store[q.key[1]]
         /\ q.key[2] = r.count => since[q.key[1]] <= q.version

HeldSinceRefresh ==
  r.held # NothingHeld /\ r.held.key[2] = r.count => since[r.held.key[1]] <= r.held.version

\* An issued key is being read, loaded or refused.
IssuedKeyIsServed ==
  r.issued # NoKey => \/ \E q \in r.flying : IsCurrent(r, q) /\ q.key = r.issued
                      \/ r.held.key = r.issued
                      \/ r.refused = r.issued

NothingIssuedUnselected == target = None => r.issued = NoKey

IInv == /\ TypeOK
        /\ HistoryBehindStore
        /\ KeysBehindCount
        /\ CurrentRead
        /\ HeldSinceRefresh
        /\ IssuedKeyIsServed
        /\ NothingIssuedUnselected

-----------------------------------------------------------------------------
(* Reads and keys *)

\* A key that stands for a case is not the key of "nothing selected".
LEMMA CaseKeys == \A t \in Targets, n \in Nat :
                    <<t, n>> # NoKey /\ <<t, n>> \in Targets \X Nat
  BY TargetsAssumption DEF NoKey

\* Something loaded is told from nothing loaded by its key.
LEMMA HeldKeys == \A h \in [key : Targets \X Nat, version : Nat] :
                    h # NothingHeld /\ h.key # NoKey /\ h.key[1] \in Targets /\ h.key[2] \in Nat
  BY TargetsAssumption DEF NoKey, NothingHeld

\* The cleanup of an effect changes nothing of a GET but its signal.
LEMMA AbortedRead ==
  ASSUME NEW q \in Reads, NEW a, a = [q EXCEPT !.aborted = TRUE]
  PROVE  a \in Reads /\ a.aborted /\ a.id = q.id /\ a.key = q.key
  BY DEF Reads

\* A GET just sent.
LEMMA NewRead ==
  ASSUME NEW id \in Nat, NEW key \in Targets \X Nat
  PROVE  /\ Get(id, key) \in Reads
         /\ Get(id, key).id = id /\ Get(id, key).key = key
         /\ ~Get(id, key).aborted /\ Get(id, key).answer = "none"
  BY DEF Get, Reads

\* At most one GET in flight is current.
LEMMA OneCurrentRead ==
  ASSUME TypeOK, NEW p \in r.flying, NEW q \in r.flying, IsCurrent(r, p), IsCurrent(r, q)
  PROVE  p = q
  BY DEF TypeOK, IsCurrent

-----------------------------------------------------------------------------
(* The invariant holds at the start and is kept by every action *)

LEMMA InitInvariant == Init => IInv
<1> SUFFICES ASSUME Init PROVE IInv
  OBVIOUS
<1>1. r = Mounted
  BY DEF Init
<1>2. /\ r.count = 0 /\ r.latest = 0 /\ r.issued = NoKey /\ r.refused = NoKey
      /\ r.held = NothingHeld /\ r.flying = {}
  BY <1>1 DEF Mounted
<1>3. TypeOK
  <2>1. r \in [count : Nat, latest : Nat, issued : Keys, refused : Keys,
               held : [key : Targets \X Nat, version : Nat] \cup {NothingHeld},
               flying : SUBSET Reads]
    BY <1>1 DEF Mounted, Keys
  <2> QED
    BY <1>2, <2>1 DEF Init, TypeOK
<1>4. HistoryBehindStore
  BY DEF Init, HistoryBehindStore
<1> QED
  BY <1>2, <1>3, <1>4 DEF IInv, KeysBehindCount, CurrentRead, HeldSinceRefresh,
     IssuedKeyIsServed, NothingIssuedUnselected

LEMMA SelectKeepsInvariant ==
  ASSUME IInv, NEW t \in Targets, Select(t)
  PROVE  IInv'
<1>1. /\ target' = t /\ t # None
      /\ r' = r /\ store' = store /\ newest' = newest /\ since' = since /\ last' = last
  BY TargetsAssumption DEF Select
<1>2. TypeOK'
  BY <1>1 DEF IInv, TypeOK
<1>3. KeysBehindCount' /\ HeldSinceRefresh' /\ HistoryBehindStore'
  BY <1>1 DEF IInv, KeysBehindCount, HeldSinceRefresh, HistoryBehindStore
<1>4. CurrentRead' /\ IssuedKeyIsServed'
  BY <1>1 DEF IInv, CurrentRead, IssuedKeyIsServed, IsCurrent
<1> QED
  BY <1>1, <1>2, <1>3, <1>4 DEF IInv, NothingIssuedUnselected

LEMMA RefreshKeepsInvariant ==
  ASSUME IInv, Refresh
  PROVE  IInv'
<1>1. /\ target' = target /\ target # None /\ since' = store
      /\ store' = store /\ newest' = newest /\ last' = last
  BY DEF Refresh
<1>2. r \in [count : Nat, latest : Nat, issued : Keys, refused : Keys,
             held : [key : Targets \X Nat, version : Nat] \cup {NothingHeld},
             flying : SUBSET Reads]
  BY DEF IInv, TypeOK
<1>3. /\ r'.count = r.count + 1 /\ r'.latest = r.latest /\ r'.issued = r.issued
      /\ r'.refused = r.refused /\ r'.held = r.held /\ r'.flying = r.flying
      /\ r' \in [count : Nat, latest : Nat, issued : Keys, refused : Keys,
                 held : [key : Targets \X Nat, version : Nat] \cup {NothingHeld},
                 flying : SUBSET Reads]
  BY <1>2 DEF Refresh, Refreshed
<1>4. TypeOK'
  BY <1>1, <1>3 DEF IInv, TypeOK
<1>5. \A q \in r.flying : q.key[2] \in Nat
  BY <1>2 DEF Reads
<1>6. r.held # NothingHeld => r.held.key[2] \in Nat
  BY <1>2, HeldKeys
<1>7. KeysBehindCount' /\ HeldSinceRefresh'
  BY <1>2, <1>3, <1>5, <1>6 DEF IInv, KeysBehindCount, HeldSinceRefresh
<1>8. HistoryBehindStore'
  BY <1>1 DEF IInv, TypeOK, HistoryBehindStore
<1>9. \A q : IsCurrent(r, q)' <=> IsCurrent(r, q)
  BY <1>3 DEF IsCurrent
<1>10. CurrentRead'
  BY <1>1, <1>2, <1>3, <1>5, <1>9 DEF IInv, KeysBehindCount, CurrentRead, IsCurrent
<1>11. IssuedKeyIsServed'
  BY <1>3, <1>9 DEF IInv, IssuedKeyIsServed, IsCurrent
<1> QED
  BY <1>1, <1>3, <1>4, <1>7, <1>8, <1>10, <1>11 DEF IInv, NothingIssuedUnselected

LEMMA RunEffectKeepsInvariant ==
  ASSUME IInv, RunEffect
  PROVE  IInv'
<1> DEFINE k == <<target, r.count>>
           new == Get(r.latest + 1, k)
<1>1. /\ target' = target /\ store' = store /\ newest' = newest
      /\ since' = since /\ last' = last
  BY DEF RunEffect
<1>2. r \in [count : Nat, latest : Nat, issued : Keys, refused : Keys,
             held : [key : Targets \X Nat, version : Nat] \cup {NothingHeld},
             flying : SUBSET Reads]
  BY DEF IInv, TypeOK
<1>3. target \in Targets /\ Key(r, target) = k
  <2>1. r.issued # Key(r, target)
    BY DEF RunEffect, Flushed
  <2>2. target # None
    BY <2>1 DEF IInv, NothingIssuedUnselected, Key
  <2> QED
    BY <2>2 DEF IInv, TypeOK, Key
<1>4. k \in Targets \X Nat /\ k # NoKey /\ k[2] = r.count
  <2>1. r.count \in Nat
    BY <1>2
  <2> QED
    BY <2>1, <1>3, CaseKeys
<1>5. /\ new \in Reads /\ new.id = r.latest + 1 /\ new.key = k
      /\ ~new.aborted /\ new.answer = "none"
  <2>1. r.latest + 1 \in Nat
    BY <1>2
  <2> QED
    BY <2>1, <1>4, NewRead
<1> HIDE DEF k, new
<1>6. /\ r'.count = r.count /\ r'.latest = r.latest + 1 /\ r'.issued = k
      /\ r'.refused = r.refused /\ r'.held = r.held
      /\ r'.flying = {[q EXCEPT !.aborted = TRUE] : q \in r.flying} \cup {new}
  BY <1>2, <1>3 DEF RunEffect, Issued, k, new
<1>7. ASSUME NEW p \in r'.flying
      PROVE  \/ p = new
             \/ /\ p \in Reads /\ p.aborted
                /\ \E q \in r.flying : p = [q EXCEPT !.aborted = TRUE]
  BY <1>2, <1>6, AbortedRead
<1>8. ASSUME NEW p \in r'.flying, p # new
      PROVE  \E q \in r.flying : p = [q EXCEPT !.aborted = TRUE] /\ p.id = q.id /\ p.key = q.key
  <2>1. PICK q \in r.flying : p = [q EXCEPT !.aborted = TRUE]
    BY <1>7, <1>8
  <2>2. q \in Reads
    BY <1>2
  <2> QED
    BY <2>1, <2>2, AbortedRead
<1>9. r' \in [count : Nat, latest : Nat, issued : Keys, refused : Keys,
              held : [key : Targets \X Nat, version : Nat] \cup {NothingHeld},
              flying : SUBSET Reads]
  <2>1. r'.flying \subseteq Reads
    BY <1>5, <1>7
  <2>2. r' = [r EXCEPT !.issued = r'.issued, !.latest = r'.latest, !.flying = r'.flying]
    BY <1>2, <1>6 DEF RunEffect, Issued
  <2>3. r'.count \in Nat /\ r'.latest \in Nat /\ r'.issued \in Keys /\ r'.refused \in Keys
    BY <1>2, <1>4, <1>6 DEF Keys
  <2>4. r'.held \in [key : Targets \X Nat, version : Nat] \cup {NothingHeld}
    BY <1>2, <1>6
  <2> QED
    BY <1>2, <2>1, <2>2, <2>3, <2>4
<1>10. ASSUME NEW p \in r'.flying, NEW q \in r'.flying, p.id = q.id
       PROVE  p = q
  <2>1. \A x \in r.flying : x.id \in Nat /\ x.id <= r.latest
    BY <1>2 DEF IInv, TypeOK, Reads
  <2>2. CASE p = new
    BY <1>2, <1>5, <1>8, <1>10, <2>1, <2>2
  <2>3. CASE q = new
    BY <1>2, <1>5, <1>8, <1>10, <2>1, <2>3
  <2>4. CASE p # new /\ q # new
    <3>1. PICK x \in r.flying : p = [x EXCEPT !.aborted = TRUE] /\ p.id = x.id
      BY <1>8, <2>4
    <3>2. PICK y \in r.flying : q = [y EXCEPT !.aborted = TRUE] /\ q.id = y.id
      BY <1>8, <2>4
    <3>3. x = y
      BY <1>10, <3>1, <3>2 DEF IInv, TypeOK
    <3> QED
      BY <3>1, <3>2, <3>3
  <2> QED
    BY <2>2, <2>3, <2>4
<1>11. ASSUME NEW p \in r'.flying
       PROVE  p.id <= r'.latest /\ (~p.aborted => p.id = r'.latest)
  <2>1. \A x \in r.flying : x.id \in Nat /\ x.id <= r.latest
    BY <1>2 DEF IInv, TypeOK, Reads
  <2>2. CASE p = new
    BY <1>2, <1>5, <1>6, <2>2
  <2>3. CASE p # new
    BY <1>2, <1>6, <1>7, <1>8, <2>1, <2>3
  <2> QED
    BY <2>2, <2>3
<1>12. TypeOK'
  BY <1>1, <1>9, <1>10, <1>11 DEF IInv, TypeOK
<1>13. ASSUME NEW p \in r'.flying, IsCurrent(r', p)
       PROVE  p = new
  BY <1>7, <1>13 DEF IsCurrent
<1>14. new \in r'.flying /\ IsCurrent(r', new)
  BY <1>5, <1>6 DEF IsCurrent
<1>15. CurrentRead'
  BY <1>5, <1>6, <1>13 DEF CurrentRead, IsCurrent
<1>16. IssuedKeyIsServed'
  BY <1>5, <1>6, <1>14 DEF IssuedKeyIsServed, IsCurrent
<1>17. KeysBehindCount'
  <2>1. ASSUME NEW p \in r'.flying PROVE p.key[2] <= r'.count
    <3>1. CASE p = new
      BY <1>2, <1>4, <1>5, <1>6, <3>1
    <3>2. CASE p # new
      BY <1>6, <1>8, <3>2 DEF IInv, KeysBehindCount
    <3> QED
      BY <3>1, <3>2
  <2> QED
    BY <1>6, <2>1 DEF IInv, KeysBehindCount
<1>18. HistoryBehindStore' /\ HeldSinceRefresh' /\ NothingIssuedUnselected'
  BY <1>1, <1>3, <1>6, TargetsAssumption
     DEF IInv, HistoryBehindStore, HeldSinceRefresh, NothingIssuedUnselected
<1> QED
  BY <1>12, <1>15, <1>16, <1>17, <1>18 DEF IInv

LEMMA AnswerKeepsInvariant ==
  ASSUME IInv, NEW q \in r.flying, NEW ok \in BOOLEAN, Answer(q, ok)
  PROVE  IInv'
<1> DEFINE v == store[q.key[1]]
           a == [q EXCEPT !.answer = IF ok THEN "loaded" ELSE "failed",
                          !.version = IF ok THEN v ELSE 0]
<1>1. /\ target' = target /\ store' = store /\ newest' = newest
      /\ since' = since /\ last' = last
  BY DEF Answer
<1>2. r \in [count : Nat, latest : Nat, issued : Keys, refused : Keys,
             held : [key : Targets \X Nat, version : Nat] \cup {NothingHeld},
             flying : SUBSET Reads]
  BY DEF IInv, TypeOK
<1>3. q \in Reads /\ q.key[1] \in Targets
  BY <1>2 DEF Reads
<1>4. v \in Nat /\ newest[q.key[1]] <= v /\ since[q.key[1]] <= v
  BY <1>3 DEF IInv, TypeOK, HistoryBehindStore
<1>5. r' = [r EXCEPT !.flying = (r.flying \ {q}) \cup {a}]
  BY DEF Answer, Answered
<1> HIDE DEF v
<1>6. /\ a \in Reads /\ a.id = q.id /\ a.key = q.key /\ a.aborted = q.aborted
      /\ a.answer = "loaded" => a.version = v
  BY <1>3, <1>4 DEF Reads
<1> HIDE DEF a
<1>7. /\ r'.count = r.count /\ r'.latest = r.latest /\ r'.issued = r.issued
      /\ r'.refused = r.refused /\ r'.held = r.held
      /\ r'.flying = (r.flying \ {q}) \cup {a}
  BY <1>2, <1>5
<1>8. r' \in [count : Nat, latest : Nat, issued : Keys, refused : Keys,
              held : [key : Targets \X Nat, version : Nat] \cup {NothingHeld},
              flying : SUBSET Reads]
  BY <1>2, <1>5, <1>6
<1>9. TypeOK'
  <2>1. ASSUME NEW x \in r'.flying, NEW y \in r'.flying, x.id = y.id
        PROVE  x = y
    BY <1>6, <1>7, <2>1 DEF IInv, TypeOK
  <2>2. ASSUME NEW x \in r'.flying
        PROVE  x.id <= r'.latest /\ (~x.aborted => x.id = r'.latest)
    BY <1>6, <1>7 DEF IInv, TypeOK
  <2> QED
    BY <1>1, <1>8, <2>1, <2>2 DEF IInv, TypeOK
<1>10. IsCurrent(r', a) <=> IsCurrent(r, q)
  BY <1>6, <1>7 DEF IsCurrent
<1>11. \A x : IsCurrent(r', x) <=> IsCurrent(r, x)
  BY <1>7 DEF IsCurrent
<1>12. CurrentRead'
  <2>1. ASSUME NEW x \in r'.flying, IsCurrent(r', x)
        PROVE  /\ x.key = r.issued
               /\ x.answer = "loaded" =>
                    /\ newest[x.key[1]] <= x.version /\ x.version <= store[x.key[1]]
                    /\ x.key[2] = r.count => since[x.key[1]] <= x.version
    <3>1. CASE x = a
      <4>1. q.key = r.issued
        BY <1>10, <2>1, <3>1 DEF IInv, CurrentRead
      <4> QED
        BY <1>4, <1>6, <3>1, <4>1 DEF v
    <3>2. CASE x # a
      BY <1>7, <1>11, <2>1, <3>2 DEF IInv, CurrentRead
    <3> QED
      BY <3>1, <3>2
  <2> QED
    BY <1>1, <1>7, <2>1 DEF CurrentRead, IsCurrent
<1>13. IssuedKeyIsServed'
  <2>1. (\E x \in r.flying : IsCurrent(r, x) /\ x.key = r.issued)
          => \E x \in r'.flying : IsCurrent(r', x) /\ x.key = r.issued
    BY <1>6, <1>7, <1>10, <1>11
  <2>2. (\E x \in r'.flying : IsCurrent(r', x) /\ x.key = r.issued) => 
        (\E x \in r.flying : IsCurrent(r, x) /\ x.key = r.issued)'
    BY <1>7 DEF IsCurrent
  <2> QED
    BY <1>7, <2>1, <2>2 DEF IInv, IssuedKeyIsServed
<1>14. KeysBehindCount'
  <2>1. ASSUME NEW x \in r'.flying PROVE x.key[2] <= r'.count
    BY <1>6, <1>7 DEF IInv, KeysBehindCount
  <2> QED
    BY <1>7, <2>1 DEF IInv, KeysBehindCount
<1>15. HistoryBehindStore' /\ HeldSinceRefresh' /\ NothingIssuedUnselected'
  BY <1>1, <1>7 DEF IInv, HistoryBehindStore, HeldSinceRefresh, NothingIssuedUnselected
<1> QED
  BY <1>9, <1>12, <1>13, <1>14, <1>15 DEF IInv

LEMMA DeliverKeepsInvariant ==
  ASSUME IInv, NEW q \in r.flying, Deliver(q)
  PROVE  IInv' /\ (\A t \in Targets : newest[t] <= newest'[t])
<1> DEFINE loaded == IsCurrent(r, q) /\ q.answer = "loaded"
           failed == IsCurrent(r, q) /\ q.answer = "failed"
<1>1. /\ target' = target /\ store' = store /\ since' = since
      /\ q.answer # "none"
  BY DEF Deliver
<1>2. r \in [count : Nat, latest : Nat, issued : Keys, refused : Keys,
             held : [key : Targets \X Nat, version : Nat] \cup {NothingHeld},
             flying : SUBSET Reads]
  BY DEF IInv, TypeOK
<1>3. /\ q.key \in Targets \X Nat /\ q.key[1] \in Targets /\ q.version \in Nat
      /\ q.answer \in {"loaded", "failed"}
  BY <1>1, <1>2 DEF Reads
<1>4. /\ r'.count = r.count /\ r'.latest = r.latest /\ r'.issued = r.issued
      /\ r'.flying = r.flying \ {q}
      /\ r'.held = IF loaded THEN [key |-> q.key, version |-> q.version] ELSE r.held
      /\ r'.refused = IF failed THEN q.key ELSE r.refused
  BY <1>2 DEF Deliver, Delivered
<1>5. r' \in [count : Nat, latest : Nat, issued : Keys, refused : Keys,
              held : [key : Targets \X Nat, version : Nat] \cup {NothingHeld},
              flying : SUBSET Reads]
  <2>1. r' = [r EXCEPT !.flying = r'.flying, !.held = r'.held, !.refused = r'.refused]
    BY <1>2, <1>4 DEF Deliver, Delivered
  <2>2. r'.held \in [key : Targets \X Nat, version : Nat] \cup {NothingHeld}
    BY <1>2, <1>3, <1>4
  <2>3. r'.refused \in Keys
    BY <1>2, <1>3, <1>4 DEF Keys
  <2>4. r'.flying \subseteq Reads
    BY <1>2, <1>4
  <2> QED
    BY <1>2, <2>1, <2>2, <2>3, <2>4
<1>6. \A x : IsCurrent(r', x) <=> IsCurrent(r, x)
  BY <1>4 DEF IsCurrent
<1>7. /\ newest \in [Targets -> Nat] /\ store \in [Targets -> Nat] /\ since \in [Targets -> Nat]
      /\ \A t \in Targets : newest[t] <= store[t] /\ since[t] <= store[t]
  BY DEF IInv, TypeOK, HistoryBehindStore
<1>8. loaded => /\ q.key = r.issued
                /\ newest[q.key[1]] <= q.version /\ q.version <= store[q.key[1]]
                /\ q.key[2] = r.count => since[q.key[1]] <= q.version
  BY DEF IInv, CurrentRead
<1>9. /\ newest' = newest \/ (loaded /\ newest' = [newest EXCEPT ![q.key[1]] = q.version])
      /\ ~loaded => newest' = newest
  BY <1>4 DEF Deliver
<1>10. /\ newest' \in [Targets -> Nat]
       /\ \A t \in Targets : newest[t] <= newest'[t] /\ newest'[t] <= store[t]
  BY <1>3, <1>7, <1>8, <1>9
<1>11. last' \in [Targets -> {"none", "loaded", "failed"}]
  BY <1>3 DEF IInv, TypeOK, Deliver
<1>12. TypeOK'
  BY <1>1, <1>4, <1>5, <1>10, <1>11 DEF IInv, TypeOK
<1>13. HistoryBehindStore'
  BY <1>1, <1>7, <1>10 DEF HistoryBehindStore
<1>14. KeysBehindCount'
  BY <1>4 DEF IInv, KeysBehindCount
<1>15. HeldSinceRefresh'
  BY <1>1, <1>4, <1>8 DEF IInv, HeldSinceRefresh
<1>16. CurrentRead'
  <2>1. ASSUME NEW x \in r'.flying, IsCurrent(r', x)
        PROVE  /\ x.key = r.issued
               /\ x.answer = "loaded" =>
                    /\ newest'[x.key[1]] <= x.version /\ x.version <= store[x.key[1]]
                    /\ x.key[2] = r.count => since[x.key[1]] <= x.version
    <3>1. x \in r.flying /\ x # q /\ IsCurrent(r, x)
      BY <1>4, <1>6, <2>1
    <3>2. ~loaded
      BY <3>1, OneCurrentRead DEF IInv
    <3>3. newest' = newest
      BY <1>9, <3>2
    <3> QED
      BY <3>1, <3>3 DEF IInv, CurrentRead
  <2> QED
    BY <1>1, <1>4, <2>1 DEF CurrentRead, IsCurrent
<1>17. IssuedKeyIsServed'
  <2>1. CASE loaded \/ failed
    BY <1>4, <2>1 DEF IInv, CurrentRead, IssuedKeyIsServed
  <2>2. CASE ~loaded /\ ~failed
    <3>1. ~IsCurrent(r, q)
      BY <1>3, <2>2
    <3> QED
      BY <1>4, <2>2, <3>1 DEF IInv, IssuedKeyIsServed, IsCurrent
  <2> QED
    BY <2>1, <2>2
<1>18. NothingIssuedUnselected'
  BY <1>1, <1>4 DEF IInv, NothingIssuedUnselected
<1> QED
  BY <1>10, <1>12, <1>13, <1>14, <1>15, <1>16, <1>17, <1>18 DEF IInv

LEMMA ChangeKeepsInvariant ==
  ASSUME IInv, NEW t \in Targets, Change(t)
  PROVE  IInv'
<1>1. /\ target' = target /\ r' = r /\ newest' = newest /\ since' = since /\ last' = last
      /\ store' = [store EXCEPT ![t] = store[t] + 1]
  BY DEF Change
<1>2. store \in [Targets -> Nat] /\ newest \in [Targets -> Nat] /\ since \in [Targets -> Nat]
  BY DEF IInv, TypeOK
<1>3. store' \in [Targets -> Nat] /\ \A c \in Targets : store[c] <= store'[c]
  BY <1>1, <1>2
<1>4. TypeOK'
  BY <1>1, <1>3 DEF IInv, TypeOK
<1>5. HistoryBehindStore'
  BY <1>1, <1>2, <1>3 DEF IInv, HistoryBehindStore
<1>6. CurrentRead'
  <2>1. ASSUME NEW x \in r.flying, IsCurrent(r, x), x.answer = "loaded"
        PROVE  x.version <= store'[x.key[1]]
    <3>1. x.key[1] \in Targets /\ x.version \in Nat
      BY DEF IInv, TypeOK, Reads
    <3>2. x.version <= store[x.key[1]]
      BY <2>1 DEF IInv, CurrentRead
    <3> QED
      BY <1>2, <1>3, <3>1, <3>2
  <2> QED
    BY <1>1, <2>1 DEF IInv, CurrentRead, IsCurrent
<1>7. KeysBehindCount' /\ HeldSinceRefresh' /\ IssuedKeyIsServed' /\ NothingIssuedUnselected'
  BY <1>1 DEF IInv, KeysBehindCount, HeldSinceRefresh, IssuedKeyIsServed,
     NothingIssuedUnselected, IsCurrent
<1> QED
  BY <1>4, <1>5, <1>6, <1>7 DEF IInv

LEMMA StutterKeepsInvariant == IInv /\ UNCHANGED vars => IInv'
  BY DEF IInv, vars, TypeOK, HistoryBehindStore, KeysBehindCount, CurrentRead,
     HeldSinceRefresh, IssuedKeyIsServed, NothingIssuedUnselected, IsCurrent

LEMMA NextKeepsInvariant == IInv /\ [Next]_vars => IInv'
  BY SelectKeepsInvariant, RefreshKeepsInvariant, RunEffectKeepsInvariant,
     AnswerKeepsInvariant, DeliverKeepsInvariant, ChangeKeepsInvariant,
     StutterKeepsInvariant DEF Next

LEMMA InvariantAlways == Spec => []IInv
  BY InitInvariant, NextKeepsInvariant, PTL DEF Spec

-----------------------------------------------------------------------------
(* Theorems *)

\* Every variable keeps its type and request ids stay unique, whatever the number
\* of cases, reads and refreshes (useCaseResource).
THEOREM TypeCorrect == Spec => []TypeOK
<1>1. IInv => TypeOK
  BY DEF IInv
<1> QED
  BY <1>1, InvariantAlways, PTL

\* No panel shows a case at an older version than it showed it before, although
\* answers come in any order (isCurrent in the effect of useCaseResource).
THEOREM CasesNeverGoBack == Spec => NeverOlder
<1>1. IInv /\ [Next]_vars => [\A t \in Targets : newest'[t] >= newest[t]]_newest
  <2> SUFFICES ASSUME IInv, [Next]_vars, newest' # newest
               PROVE  \A t \in Targets : newest'[t] >= newest[t]
    OBVIOUS
  <2>1. PICK q \in r.flying : Deliver(q)
    BY DEF Next, vars, Select, Refresh, RunEffect, Answer, Change
  <2>2. IInv' /\ \A t \in Targets : newest[t] <= newest'[t]
    BY <2>1, DeliverKeepsInvariant
  <2> QED
    BY <2>2 DEF IInv, TypeOK
<1> QED
  BY <1>1, InvariantAlways, PTL DEF Spec, NeverOlder

\* A panel that says "ready" after refresh() holds an answer that the server gave
\* after that refresh (the refresh counter in the request key).
THEOREM ReadyMeansRefreshed == Spec => []ReadySinceRefresh
<1>1. IInv => ReadySinceRefresh
  <2> SUFFICES ASSUME IInv, Status(r, target) = "ready"
               PROVE  r.held.version >= since[target]
    BY DEF ReadySinceRefresh
  <2>1. target # None /\ r.held.key = Key(r, target)
    BY DEF Status, Failed, Pending
  <2>2. target \in Targets /\ r.held.key = <<target, r.count>>
    BY <2>1 DEF IInv, TypeOK, Key
  <2>3. r.held # NothingHeld
    BY <2>2, TargetsAssumption DEF NothingHeld, NoKey
  <2>4. r.held.key[1] = target /\ r.held.key[2] = r.count
    BY <2>2
  <2>5. since[target] <= r.held.version
    BY <2>3, <2>4 DEF IInv, HeldSinceRefresh
  <2>6. since[target] \in Nat /\ r.held.version \in Nat
    BY <2>2, <2>3 DEF IInv, TypeOK
  <2> QED
    BY <2>5, <2>6
<1> QED
  BY <1>1, InvariantAlways, PTL

\* A panel whose effects have run and that says it is reading has a GET on its way
\* for the selected case and the present refresh (pending is derived, not tracked).
THEOREM SpinnersAreServed == Spec => []SpinnerHasItsRequest
<1>1. IInv => SpinnerHasItsRequest
  <2> SUFFICES ASSUME IInv, Flushed(r, target), Pending(r, target)
               PROVE  InFlight(r, target)
    BY DEF SpinnerHasItsRequest
  <2>1. target \in Targets /\ r.issued = Key(r, target) /\ Key(r, target) = <<target, r.count>>
    BY DEF IInv, TypeOK, Flushed, Pending, Key
  <2>2. r.issued # NoKey
    BY <2>1, TargetsAssumption DEF NoKey
  <2>3. r.held.key # r.issued /\ r.refused # r.issued
    BY <2>1 DEF Pending
  <2> QED
    BY <2>1, <2>2, <2>3 DEF IInv, IssuedKeyIsServed, InFlight
<1> QED
  BY <1>1, InvariantAlways, PTL

-----------------------------------------------------------------------------
(* The queue *)

\* Counting is the same operator for the parts.
LEMMA CountsAgree == \A S : /\ Paging!Cardinality(S) = Cardinality(S)
                           /\ Screen!Cardinality(S) = Cardinality(S)
  BY DEF Paging!Cardinality, Screen!Cardinality, Cardinality

Places == (Paging!Filters \X Nat) \X Nat
Pages == [offset : Nat, total : Nat, count : Nat]
PageGets == [id : Nat, key : Places, aborted : BOOLEAN,
             answer : {"none", "loaded", "failed"}, version : Nat]

PageHooks == [count : Nat, latest : Nat, issued : Places \cup {Paging!NoKey},
              refused : Places \cup {Paging!NoKey},
              held : [key : Places \cup {Paging!NoKey}, version : Nat],
              flying : SUBSET PageGets]

\* The types of the state, and the offsets that the API would refuse.
PagesTyped ==
  /\ filter \in Paging!Filters /\ offset \in Nat /\ offset % Limit = 0
  /\ page \in PageHooks
  /\ reply \in Pages /\ data \in Pages
  /\ pending \in Nat /\ decided \in Nat /\ pending + decided <= MaxCases
  /\ due \in BOOLEAN
  /\ fired \in Nat

OffsetsOnBoundaries ==
  /\ data.offset % Limit = 0
  /\ \A q \in page.flying : q.key[1][2] % Limit = 0

\* One GET is on its way, and the reply belongs to it.
OneGet ==
  /\ \A p, q \in page.flying : p = q
  /\ \A q \in page.flying : q.answer # "none" =>
       reply.offset = q.key[1][2] /\ reply.offset % Limit = 0

\* The page on the screen was read at the offset under which it is held.
PageIsHeld == Paging!Loaded => data.offset = page.held.key[1][2]

\* An empty page whose effect has run is not the page asked for.
EmptyPageIsNotAskedFor == Paging!PastTheEnd /\ ~due => offset # data.offset

\* A recovery leaves the reviewer on the first page, from which none goes on.
RecoveredToFirst == fired <= 1 /\ (fired = 1 => offset = 0)

PagingInv == /\ PagesTyped
             /\ OffsetsOnBoundaries
             /\ OneGet
             /\ PageIsHeld
             /\ due => Paging!Loaded
             /\ EmptyPageIsNotAskedFor
             /\ RecoveredToFirst

\* A multiple below the divisor is zero.
LEMMA Scaled ==
  ASSUME NEW L \in Nat \ {0}, NEW d \in Int, NEW m \in Int, L * d = m, 0 <= m, m < L
  PROVE m = 0
  <1>1. CASE d >= 1
    <2>1. L * d >= L
      BY <1>1
    <2> QED BY <2>1
  <1>2. CASE d <= -1
    <2>1. L * d <= -L
      BY <1>2
    <2> QED BY <2>1
  <1>3. CASE d = 0
    BY <1>3
  <1> QED BY <1>1, <1>2, <1>3

\* Quotient and remainder.
LEMMA Division ==
  ASSUME NEW L \in Nat \ {0}, NEW o \in Int
  PROVE  o \div L \in Int /\ o % L \in Int /\ o = L * (o \div L) + (o % L) /\ 0 <= o % L /\ o % L < L
  OBVIOUS

\* Multiples leave no remainder.
LEMMA Multiple ==
  ASSUME NEW L \in Nat \ {0}, NEW k \in Int
  PROVE  (L * k) % L = 0
  <1> DEFINE o == L * k
  <1>0. o \in Int OBVIOUS
  <1>1. o = L * (o \div L) + (o % L) /\ o \div L \in Int /\ o % L \in Int /\ 0 <= o % L /\ o % L < L
    BY <1>0, Division
  <1>2. L * (k - (o \div L)) = o % L
    <2> DEFINE d == o \div L
               m == o % L
    <2>1. L * k = L * d + m /\ d \in Int /\ m \in Int
      BY <1>1
    <2> HIDE DEF d, m
    <2> QED BY <2>1 
  <1>3. k - (o \div L) \in Int
    BY <1>1
  <1> QED BY <1>1, <1>2, <1>3, Scaled

\* The next and the previous boundary of a boundary.
LEMMA BoundariesOf ==
  ASSUME NEW L \in Nat \ {0}, NEW o \in Nat, o % L = 0
  PROVE  /\ (o + L) % L = 0
         /\ o # 0 => o >= L /\ (o - L) % L = 0
         /\ 0 % L = 0
  <1> DEFINE k == o \div L
  <1>1. k \in Int /\ o = L * k
    BY Division
  <1> HIDE DEF k
  <1>2. o + L = L * (k + 1) /\ o - L = L * (k - 1) /\ 0 = L * 0
    BY <1>1
  <1>3. o # 0 => o >= L
    <2>1. k >= 1 \/ k <= 0
      BY <1>1
    <2>2. k >= 1 => o >= L
      BY <1>1
    <2>3. k <= 0 => o <= 0
      BY <1>1
    <2> QED BY <2>1, <2>2, <2>3
  <1>4. (o + L) % L = 0
    BY <1>1, <1>2, Multiple
  <1>5. (o - L) % L = 0
    BY <1>1, <1>2, Multiple
  <1>6. 0 % L = 0
    BY <1>1, <1>2, Multiple
  <1> QED BY <1>3, <1>4, <1>5, <1>6
\* The pages before and after a page start on page boundaries.
LEMMA Boundaries ==
  ASSUME NEW o \in Nat, o % Limit = 0
  PROVE  /\ (o + Limit) % Limit = 0
         /\ o # 0 => o >= Limit /\ (o - Limit) % Limit = 0
         /\ 0 % Limit = 0
  BY BoundariesOf, PartsAssumption DEF Paging!PagingAssumption

\* A GET for a page that was just sent.
LEMMA NewPageGet ==
  ASSUME NEW id \in Nat, NEW key \in Places
  PROVE  /\ Paging!Get(id, key) \in PageGets /\ Paging!Get(id, key).key = key
         /\ Paging!Get(id, key).answer = "none"
         /\ ~Paging!Get(id, key).aborted
  BY DEF Paging!Get, PageGets

\* An answer replaces the one GET on its way, and leaves the rest of the hook.
LEMMA PageAnswered ==
  ASSUME NEW h \in PageHooks, NEW q \in h.flying, NEW ok \in BOOLEAN,
         \A a, b \in h.flying : a = b
  PROVE  \E a \in PageGets :
           /\ a.key = q.key /\ a.answer # "none"
           /\ Paging!Answered(h, q, ok, 1) \in PageHooks
           /\ Paging!Answered(h, q, ok, 1).flying = {a}
           /\ \A f \in {"count", "latest", "issued", "refused", "held"} :
                Paging!Answered(h, q, ok, 1)[f] = h[f]
  <1> DEFINE a == [q EXCEPT !.answer = IF ok THEN "loaded" ELSE "failed",
                            !.version = IF ok THEN 1 ELSE 0]
  <1>1. q \in PageGets
    BY DEF PageHooks
  <1>2. a \in PageGets /\ a.key = q.key /\ a.answer # "none"
    BY <1>1 DEF PageGets
  <1> HIDE DEF a
  <1>3. h.flying \ {q} = {}
    OBVIOUS
  <1>4. Paging!Answered(h, q, ok, 1) = [h EXCEPT !.flying = (@ \ {q}) \cup {a}]
    BY DEF Paging!Answered, a
  <1>5. Paging!Answered(h, q, ok, 1) = [h EXCEPT !.flying = {a}]
    BY <1>3, <1>4
  <1> QED
    BY <1>2, <1>5 DEF PageHooks

\* A delivered answer ends its GET; it is held while its GET is current.
LEMMA PageDelivered ==
  ASSUME NEW h \in PageHooks, NEW q \in h.flying,
         \A a, b \in h.flying : a = b
  PROVE  /\ Paging!Delivered(h, q) \in PageHooks
         /\ Paging!Delivered(h, q).flying = {}
         /\ \A f \in {"count", "latest", "issued"} : Paging!Delivered(h, q)[f] = h[f]
         /\ IF Paging!IsCurrent(h, q) /\ q.answer = "loaded"
              THEN Paging!Delivered(h, q).held.key = q.key
              ELSE Paging!Delivered(h, q).held = h.held
  <1>1. q \in PageGets
    BY DEF PageHooks
  <1>2. q.key \in Places /\ q.version \in Nat
    BY <1>1 DEF PageGets
  <1>3. h.flying \ {q} = {}
    OBVIOUS
  <1> QED
    BY <1>2, <1>3 DEF Paging!Delivered, PageHooks

\* A refresh moves the counter only.
LEMMA PageRefreshed ==
  ASSUME NEW h \in PageHooks
  PROVE  /\ Paging!Refreshed(h) \in PageHooks
         /\ \A f \in {"latest", "issued", "refused", "held", "flying"} : Paging!Refreshed(h)[f] = h[f]
  BY DEF Paging!Refreshed, PageHooks

\* What the effect of a render makes of the hook.
EffectOf(h, t) == [Paging!Issued(h, t) EXCEPT !.flying = {q \in @ : ~q.aborted}]

\* After the effect, one GET for the place asked for is on its way.
LEMMA PageSent ==
  ASSUME NEW h \in PageHooks, NEW t \in Paging!Filters \X Nat
  PROVE  /\ EffectOf(h, t) \in PageHooks
         /\ \A q \in EffectOf(h, t).flying : q.answer = "none" /\ q.key = <<t, h.count>>
         /\ \A p, q \in EffectOf(h, t).flying : p = q
         /\ EffectOf(h, t).held = h.held
  <1> DEFINE s == EffectOf(h, t)
             g == Paging!Get(h.latest + 1, <<t, h.count>>)
             F == {[q EXCEPT !.aborted = TRUE] : q \in h.flying} \cup {g}
  <1>1. t # None /\ Paging!Key(h, t) = <<t, h.count>> /\ <<t, h.count>> \in Places
    BY PartsAssumption DEF Paging!Key, Places, PageHooks, Paging!PagingAssumption
  <1>2. g \in PageGets /\ g.key = <<t, h.count>> /\ g.answer = "none" /\ ~g.aborted
    BY <1>1, NewPageGet DEF PageHooks
  <1> HIDE DEF g
  <1>3. {q \in F : ~q.aborted} = {g}
    <2>1. ASSUME NEW q \in h.flying
          PROVE  [q EXCEPT !.aborted = TRUE].aborted
      BY DEF PageHooks, PageGets
    <2> QED
      BY <1>2, <2>1
  <1>4. Paging!Issued(h, t) = [h EXCEPT !.issued = <<t, h.count>>, !.latest = h.latest + 1, !.flying = F]
    BY <1>1 DEF Paging!Issued, g
  <1> HIDE DEF F
  <1>5. /\ Paging!Issued(h, t).flying = F
        /\ s = [h EXCEPT !.issued = <<t, h.count>>, !.latest = h.latest + 1, !.flying = {g}]
    <2>1. Paging!Issued(h, t).flying = F
      BY <1>4 DEF PageHooks
    <2>2. s = [Paging!Issued(h, t) EXCEPT !.flying = {g}]
      BY <2>1, <1>3 DEF EffectOf
    <2> QED
      BY <2>1, <2>2, <1>4 DEF PageHooks
  <1> HIDE DEF s
  <1>6. s \in PageHooks
    <2>1. {g} \in SUBSET PageGets /\ h.latest + 1 \in Nat
          /\ <<t, h.count>> \in Places \cup {Paging!NoKey}
      BY <1>1, <1>2 DEF PageHooks
    <2> QED
      BY <2>1, <1>5 DEF PageHooks
  <1>7. s.flying = {g} /\ s.held = h.held
    BY <1>5 DEF PageHooks
  <1> QED
    BY <1>2, <1>6, <1>7 DEF s

\* The mounted queue.
LEMMA PagingInit == Paging!Init => PagingInv
  <1> SUFFICES ASSUME Paging!Init PROVE PagingInv
    OBVIOUS
  <1>1. Paging!Mounted \in PageHooks /\ Paging!Mounted.held.key = Paging!NoKey /\ Paging!Mounted.flying = {}
    BY DEF Paging!Mounted, PageHooks, Paging!NothingHeld
  <1>2. Paging!NoPage \in Pages /\ Paging!NoPage.offset = 0
    BY DEF Pages, Paging!NoPage
  <1>3. 0 % Limit = 0
    BY Boundaries, PartsAssumption DEF Paging!PagingAssumption
  <1>4. PagesTyped
    <2>1. pending \in Nat /\ pending + decided <= MaxCases /\ decided \in Nat
      BY PartsAssumption DEF Paging!Init, Paging!PagingAssumption
    <2> QED
      BY <1>1, <1>2, <1>3, <2>1 DEF Paging!Init, PagesTyped, Paging!Filters
  <1>5. OffsetsOnBoundaries /\ OneGet
    BY <1>1, <1>2, <1>3 DEF Paging!Init, OffsetsOnBoundaries, OneGet
  <1>6. ~Paging!Loaded
    BY <1>1 DEF Paging!Init, Paging!Loaded
  <1> QED
    BY <1>4, <1>5, <1>6
    DEF Paging!Init, PagingInv, PageIsHeld, EmptyPageIsNotAskedFor, RecoveredToFirst,
       Paging!PastTheEnd

\* Another filter starts at its first page, which is not beyond the end.
LEMMA FilterKept ==
  ASSUME PagingInv, NEW f \in Paging!Filters, Paging!ChangeFilter(f)
  PROVE  PagingInv'
  <1> USE DEF Paging!ChangeFilter, Paging!Stepped
  <1>1. 0 % Limit = 0
    BY Boundaries, PartsAssumption DEF Paging!PagingAssumption
  <1>2. PagesTyped'
    BY <1>1 DEF PagingInv, PagesTyped
  <1>3. Paging!PastTheEnd' = Paging!PastTheEnd /\ Paging!Loaded' = Paging!Loaded
    BY DEF Paging!PastTheEnd, Paging!Loaded
  <1>4. EmptyPageIsNotAskedFor'
    BY <1>3 DEF PagingInv, PagesTyped, Pages, EmptyPageIsNotAskedFor, Paging!PastTheEnd
  <1> QED
    BY <1>2, <1>3, <1>4
    DEF PagingInv, OffsetsOnBoundaries, OneGet, PageIsHeld, RecoveredToFirst

\* The page before the one shown is another one.
LEMMA PreviousKept ==
  ASSUME PagingInv, Paging!PreviousPage
  PROVE  PagingInv'
  <1> USE DEF Paging!PreviousPage, Paging!Stepped
  <1> DEFINE o == data.offset
  <1>1. o \in Nat /\ o % Limit = 0 /\ o # 0
    BY DEF PagingInv, PagesTyped, Pages, OffsetsOnBoundaries, Paging!IsFirstPage
  <1>2. o >= Limit /\ (o - Limit) % Limit = 0 /\ Limit \in Nat \ {0}
    BY <1>1, Boundaries, PartsAssumption DEF Paging!PagingAssumption
  <1>3. offset' = o - Limit
    BY <1>1, <1>2 DEF Paging!Bigger
  <1>4. offset' \in Nat /\ offset' # o /\ offset' % Limit = 0
    <2> HIDE DEF o
    <2> QED
      BY <1>1, <1>2, <1>3
  <1>5. PagesTyped'
    BY <1>4 DEF PagingInv, PagesTyped
  <1>6. Paging!Loaded' = Paging!Loaded
    BY DEF Paging!Loaded
  <1> QED
    BY <1>4, <1>5, <1>6
    DEF PagingInv, OffsetsOnBoundaries, OneGet, PageIsHeld, RecoveredToFirst,
        EmptyPageIsNotAskedFor, Paging!PastTheEnd

\* There is no next page to an empty one.
LEMMA NextKept ==
  ASSUME PagingInv, Paging!NextPage
  PROVE  PagingInv'
  <1> USE DEF Paging!NextPage, Paging!Stepped
  <1>1. /\ data.offset \in Nat /\ data.offset % Limit = 0
        /\ (data.offset + Limit) % Limit = 0 /\ Limit \in Nat
    BY Boundaries, PartsAssumption
    DEF PagingInv, PagesTyped, Pages, OffsetsOnBoundaries, Paging!PagingAssumption
  <1>2. offset' \in Nat /\ offset' % Limit = 0
    BY <1>1
  <1>3. PagesTyped'
    BY <1>2 DEF PagingInv, PagesTyped
  <1>4. Paging!Loaded' = Paging!Loaded /\ ~Paging!PastTheEnd'
    BY DEF Paging!Loaded, Paging!PastTheEnd, Paging!IsLastPage
  <1> QED
    BY <1>3, <1>4
    DEF PagingInv, OffsetsOnBoundaries, OneGet, PageIsHeld, RecoveredToFirst, EmptyPageIsNotAskedFor

\* The page asked for stays.
LEMMA RefreshKept ==
  ASSUME PagingInv, Paging!Refresh
  PROVE  PagingInv'
  <1> USE DEF Paging!Refresh, Paging!Stepped
  <1>1. page' \in PageHooks /\ page'.held = page.held /\ page'.flying = page.flying
    BY PageRefreshed DEF PagingInv, PagesTyped
  <1>2. PagesTyped'
    BY <1>1 DEF PagingInv, PagesTyped
  <1>3. Paging!Loaded' = Paging!Loaded /\ Paging!PastTheEnd' = Paging!PastTheEnd
    BY <1>1 DEF Paging!Loaded, Paging!PastTheEnd
  <1> QED
    BY <1>1, <1>2, <1>3
    DEF PagingInv, OffsetsOnBoundaries, OneGet, PageIsHeld, RecoveredToFirst, EmptyPageIsNotAskedFor

\* What is shown stays while the next page is read.
LEMMA EffectKept ==
  ASSUME PagingInv, Paging!RunEffect
  PROVE  PagingInv'
  <1>0. /\ page' = EffectOf(page, Paging!Target)
        /\ UNCHANGED <<filter, offset, reply, data, pending, decided, due, fired>>
    BY DEF Paging!RunEffect, EffectOf
  <1>1. Paging!Target \in Paging!Filters \X Nat /\ page \in PageHooks /\ offset % Limit = 0
    BY DEF PagingInv, PagesTyped, Paging!Target
  <1>2. /\ page' \in PageHooks /\ page'.held = page.held
        /\ \A q \in page'.flying : q.answer = "none" /\ q.key = <<Paging!Target, page.count>>
        /\ \A p, q \in page'.flying : p = q
    BY <1>0, <1>1, PageSent
  <1>3. PagesTyped'
    BY <1>0, <1>2 DEF PagingInv, PagesTyped
  <1>4. OffsetsOnBoundaries'
    BY <1>0, <1>1, <1>2 DEF PagingInv, OffsetsOnBoundaries, Paging!Target
  <1>5. OneGet'
    BY <1>0, <1>2 DEF OneGet
  <1>6. Paging!Loaded' = Paging!Loaded /\ Paging!PastTheEnd' = Paging!PastTheEnd
    BY <1>0, <1>2 DEF Paging!Loaded, Paging!PastTheEnd
  <1> QED
    BY <1>0, <1>2, <1>3, <1>4, <1>5, <1>6 DEF PagingInv, PageIsHeld, RecoveredToFirst,
       EmptyPageIsNotAskedFor

\* A recovery that moves the page ends on the first one, where no recovery moves it.
LEMMA RecoverKept ==
  ASSUME PagingInv, Paging!Recover
  PROVE  PagingInv' /\ (fired' # fired => fired = 0)
  <1> USE DEF Paging!Recover
  <1>1. 0 % Limit = 0
    BY Boundaries, PartsAssumption DEF Paging!PagingAssumption
  <1>2. RecoveredToFirst' /\ fired' \in Nat /\ (fired' # fired => fired = 0)
    <2>1. CASE Paging!PastTheEnd
      BY <2>1 DEF PagingInv, PagesTyped, RecoveredToFirst
    <2>2. CASE ~Paging!PastTheEnd
      BY <2>2 DEF PagingInv, PagesTyped, RecoveredToFirst
    <2> QED
      BY <2>1, <2>2
  <1>3. PagesTyped'
    BY <1>1, <1>2 DEF PagingInv, PagesTyped
  <1>4. Paging!PastTheEnd' = Paging!PastTheEnd /\ Paging!Loaded' = Paging!Loaded
    BY DEF Paging!PastTheEnd, Paging!Loaded
  <1>5. EmptyPageIsNotAskedFor'
    BY <1>4 DEF PagingInv, PagesTyped, Pages, EmptyPageIsNotAskedFor, Paging!PastTheEnd
  <1> QED
    BY <1>2, <1>3, <1>4, <1>5 DEF PagingInv, OffsetsOnBoundaries, OneGet, PageIsHeld

\* The reply is for the place that the GET asked about.
LEMMA AnswerKept ==
  ASSUME PagingInv, NEW q \in page.flying, NEW ok \in BOOLEAN, Paging!Answer(q, ok)
  PROVE  PagingInv'
  <1> USE DEF Paging!Answer
  <1>1. q \in PageGets /\ q.key \in Places /\ q.key[1][1] \in Paging!Filters /\ q.key[1][2] \in Nat
    BY DEF PagingInv, PagesTyped, PageHooks, PageGets, Places
  <1>2. PICK a \in PageGets :
           /\ a.key = q.key /\ a.answer # "none"
           /\ page' \in PageHooks
           /\ page'.flying = {a}
           /\ page'.held = page.held
    BY PageAnswered DEF PagingInv, PagesTyped, OneGet
  <1>3. reply' \in Pages /\ reply'.offset = q.key[1][2]
    <2>1. PICK shift \in {-1, 0, 1} :
            reply' = [offset |-> q.key[1][2],
                      total |-> Paging!Bigger(0, Paging!Matching(q.key[1][1]) + shift),
                      count |-> Paging!CountOf(Paging!Matching(q.key[1][1]), q.key[1][2])]
      OBVIOUS
    <2>2. Paging!Matching(q.key[1][1]) \in Nat /\ Limit \in Nat
      BY PartsAssumption DEF PagingInv, PagesTyped, Paging!Matching, Paging!PagingAssumption
    <2>3. Paging!Bigger(0, Paging!Matching(q.key[1][1]) + shift) \in Nat
      BY <2>2 DEF Paging!Bigger
    <2>4. Paging!CountOf(Paging!Matching(q.key[1][1]), q.key[1][2]) \in Nat
      BY <2>2, <1>1 DEF Paging!Bigger, Paging!Smaller, Paging!CountOf
    <2> QED
      BY <2>1, <2>3, <2>4, <1>1 DEF Pages
  <1>4. PagesTyped'
    BY <1>2, <1>3 DEF PagingInv, PagesTyped
  <1>5. OffsetsOnBoundaries' /\ OneGet'
    BY <1>2, <1>3 DEF PagingInv, OffsetsOnBoundaries, OneGet
  <1>6. Paging!PastTheEnd' = Paging!PastTheEnd /\ Paging!Loaded' = Paging!Loaded
    BY <1>2 DEF Paging!PastTheEnd, Paging!Loaded
  <1> QED
    BY <1>2, <1>4, <1>5, <1>6 DEF PagingInv, PageIsHeld, RecoveredToFirst, EmptyPageIsNotAskedFor

\* Page and key arrive together, and the effect on the page is due.
LEMMA DeliverKept ==
  ASSUME PagingInv, NEW q \in page.flying, Paging!Deliver(q)
  PROVE  PagingInv'
  <1> USE DEF Paging!Deliver
  <1>1. q \in PageGets /\ q.key \in Places
    BY DEF PagingInv, PagesTyped, PageHooks, PageGets
  <1>2. q.key # Paging!NoKey
    BY <1>1, PartsAssumption DEF Places, Paging!NoKey, Paging!PagingAssumption
  <1>3. /\ page' \in PageHooks /\ page'.flying = {}
        /\ IF Paging!IsCurrent(page, q) /\ q.answer = "loaded"
             THEN page'.held.key = q.key
             ELSE page'.held = page.held
    BY PageDelivered DEF PagingInv, PagesTyped, OneGet
  <1>4. Paging!NoPage \in Pages
    BY DEF Paging!NoPage, Pages
  <1>5. PagesTyped' /\ OneGet'
    BY <1>3, <1>4 DEF PagingInv, PagesTyped, OneGet
  <1>6. CASE Paging!IsCurrent(page, q) /\ q.answer = "loaded"
    <2>1. data' = reply /\ due' /\ page'.held.key = q.key /\ reply.offset = q.key[1][2] /\ Paging!Loaded'
      BY <1>2, <1>3, <1>6 DEF Paging!Loaded, PagingInv, PagesTyped, OneGet
    <2>2. OffsetsOnBoundaries'
      BY <1>3, <2>1 DEF PagingInv, OneGet, OffsetsOnBoundaries
    <2> QED
      BY <1>5, <2>1, <2>2 DEF PagingInv, PageIsHeld, RecoveredToFirst, EmptyPageIsNotAskedFor
  <1>7. CASE ~(Paging!IsCurrent(page, q) /\ q.answer = "loaded")
    <2>1. data' = data /\ due' = due /\ page'.held = page.held
      BY <1>3, <1>7 DEF PagingInv, PagesTyped
    <2>2. Paging!PastTheEnd' = Paging!PastTheEnd /\ Paging!Loaded' = Paging!Loaded
      BY <2>1 DEF Paging!PastTheEnd, Paging!Loaded
    <2>3. OffsetsOnBoundaries'
      BY <1>3, <2>1 DEF PagingInv, OffsetsOnBoundaries
    <2> QED
      BY <1>5, <2>1, <2>2, <2>3 DEF PagingInv, PageIsHeld, RecoveredToFirst, EmptyPageIsNotAskedFor
  <1> QED
    BY <1>6, <1>7

\* The invariant of the queue is inductive.
LEMMA PagingNext == PagingInv /\ [Paging!Next]_(Paging!vars) => PagingInv'
  <1> SUFFICES ASSUME PagingInv, [Paging!Next]_(Paging!vars) PROVE PagingInv'
    OBVIOUS
  <1>1. CASE Paging!Register \/ Paging!Decide
    <2>1. Paging!PastTheEnd' = Paging!PastTheEnd /\ Paging!Loaded' = Paging!Loaded
      BY <1>1 DEF Paging!Register, Paging!Decide, Paging!PastTheEnd, Paging!Loaded
    <2>2. PagesTyped'
      BY <1>1, PartsAssumption DEF Paging!Register, Paging!Decide, PagingInv, PagesTyped,
         Paging!PagingAssumption
    <2> QED
      BY <1>1, <2>1, <2>2
      DEF Paging!Register, Paging!Decide, PagingInv, OffsetsOnBoundaries, OneGet, PageIsHeld,
          RecoveredToFirst, EmptyPageIsNotAskedFor
  <1>2. CASE UNCHANGED Paging!vars
    BY <1>2 DEF Paging!vars, PagingInv, PagesTyped, OffsetsOnBoundaries, OneGet, PageIsHeld,
       Paging!Loaded,
                RecoveredToFirst, EmptyPageIsNotAskedFor, Paging!PastTheEnd
  <1> QED
    BY <1>1, <1>2, FilterKept, PreviousKept, NextKept, RefreshKept, EffectKept, RecoverKept,
       AnswerKept, DeliverKept
    DEF Paging!Next, Paging!Reading

\* It holds throughout.
LEMMA PagingInvariant == Paging!Spec => []PagingInv
  BY PagingInit, PagingNext, PTL DEF Paging!Spec

\* Offsets on boundaries, one GET at most.
LEMMA PagingTypes == PagingInv => Paging!TypeOK
  <1> SUFFICES ASSUME PagingInv PROVE Paging!TypeOK
    OBVIOUS
  <1>1. Cardinality(page.flying) <= 1
    <2>1. CASE page.flying = {}
      BY <2>1, FS_EmptySet
    <2>2. CASE page.flying # {}
      <3>1. PICK q \in page.flying : TRUE
        BY <2>2
      <3>2. page.flying = {q}
        BY <3>1 DEF PagingInv, OneGet
      <3> QED
        BY <3>2, FS_Singleton
    <2> QED
      BY <2>1, <2>2
  <1> QED
    BY <1>1, CountsAgree DEF PagingInv, PagesTyped, Paging!TypeOK

\* What is held under the key asked for is at the offset asked for.
LEMMA PagingLeft == PagingInv => Paging!NotLeftPastTheEnd
  <1> SUFFICES ASSUME PagingInv, Paging!Settled, ~Paging!Pending(page, Paging!Target),
                      ~Paging!Failed(page, Paging!Target), Paging!PastTheEnd
      PROVE  FALSE
    BY DEF Paging!NotLeftPastTheEnd
  <1>1. Paging!Target # None
    BY PartsAssumption DEF PagingInv, PagesTyped, Paging!Target, Paging!PagingAssumption
  <1>2. page.held.key = <<Paging!Target, page.count>>
    BY <1>1 DEF Paging!Pending, Paging!Failed, Paging!Key
  <1>3. data.offset = offset
    BY <1>2 DEF PagingInv, PageIsHeld, Paging!PastTheEnd, Paging!Target
  <1> QED
    BY <1>3 DEF PagingInv, EmptyPageIsNotAskedFor, Paging!Settled

\* One recovery moves the page.
LEMMA PagingRecovers == PagingInv => Paging!RecoversOnce
  BY DEF PagingInv, RecoveredToFirst, Paging!RecoversOnce

-----------------------------------------------------------------------------
(* The screen that decides *)

ReadKeys == Case \X Nat
CaseGets == [id : Nat, key : ReadKeys, aborted : BOOLEAN,
             answer : {"none", "loaded", "failed"}, version : Nat]

CaseHooks == [count : Nat, latest : Nat, issued : ReadKeys \cup {Screen!NoKey},
              refused : ReadKeys \cup {Screen!NoKey},
              held : [key : ReadKeys \cup {Screen!NoKey}, version : Nat],
              flying : SUBSET CaseGets]

Panels == [serial : Nat, kind : {"choosing", "confirming", "settled"}, version : Nat,
           outcome : {"none", "lost", "recorded", "refused", "conflict"}, submitting : BOOLEAN]

Posts == [id : Nat, serial : Nat, case : Case, version : Nat,
          served : {"no", "recorded", "refused", "conflict"}, heard : BOOLEAN]

ScreenTyped ==
  /\ selected \in Case \cup {None}
  /\ detail \in CaseHooks /\ history \in CaseHooks
  /\ panel \in Panels
  /\ posts \in SUBSET Posts
  /\ version \in [Case -> 1..2]
  /\ sent \in Nat
  /\ known \in SUBSET Case

\* No key was used under a refresh still to come, so a read sent after the one that a
\* recorded decision asked for, and only such a read, has the key of the present count:
\* for a case known to be decided it brings the decided version.
FreshSince(h, K) ==
  /\ h.held.key[2] <= h.count
  /\ \A q \in h.flying : q.key[2] <= h.count
  /\ \A c \in K : h.held.key = <<c, h.count>> => h.held.version = 2
  /\ \A c \in K, q \in h.flying :
       q.key = <<c, h.count>> /\ q.answer = "loaded" => q.version = 2

ReadsAreFresh == FreshSince(detail, known) /\ FreshSince(history, known)

NothingReadUnselected == selected = None => detail.issued = Screen!NoKey /\ history.issued = Screen!NoKey

\* A decision is made on a pending case, and is recorded by moving the case to version 2.
DecisionsOnPending ==
  /\ panel.kind = "confirming" => panel.version = 1
  /\ \A p \in posts : p.version = 1 /\ (p.served = "recorded" => version[p.case] = 2)
  /\ \A c \in known : version[c] = 2

\* The POSTs of the panel on the screen are about the case on the screen; one of them is
\* unanswered while the panel submits, and none otherwise.
PostsOfThePanel ==
  /\ \A p \in posts : p.id <= sent /\ p.serial <= panel.serial
  /\ \A p, q \in posts : p.id = q.id => p = q
  /\ \A p \in posts : p.serial = panel.serial => p.case = selected
  /\ panel.submitting => panel.kind = "confirming"
  /\ panel.submitting => \E p \in posts : p.serial = panel.serial /\ ~p.heard
  /\ \A p \in posts : p.serial = panel.serial /\ ~p.heard => panel.submitting
  /\ \A p, q \in posts : p.serial = panel.serial /\ ~p.heard /\ q.serial = panel.serial /\ ~q.heard
                           => p = q

\* "Decision recorded" is said of the selected case, and is true of it.
RecordedIsKnown ==
  panel.kind = "settled" /\ panel.outcome = "recorded" => selected \in known

ScreenInv == /\ ScreenTyped
             /\ ReadsAreFresh
             /\ NothingReadUnselected
             /\ DecisionsOnPending
             /\ PostsOfThePanel
             /\ RecordedIsKnown

-----------------------------------------------------------------------------
\* A refresh leaves no read under the new count: whatever is decided by now, it is fresh.
LEMMA CaseRefreshed ==
  ASSUME NEW h \in CaseHooks, NEW K, NEW L, FreshSince(h, K)
  PROVE  /\ Screen!Refreshed(h) \in CaseHooks /\ FreshSince(Screen!Refreshed(h), L)
         /\ Screen!Refreshed(h).issued = h.issued
  <1>1. /\ Screen!Refreshed(h) \in CaseHooks /\ Screen!Refreshed(h).issued = h.issued
        /\ Screen!Refreshed(h).count = h.count + 1 /\ Screen!Refreshed(h).held = h.held
        /\ Screen!Refreshed(h).flying = h.flying
    BY DEF Screen!Refreshed, CaseHooks
  <1>2. h.count \in Nat /\ h.held.key[2] \in Nat /\ \A q \in h.flying : q.key[2] \in Nat
    BY DEF CaseHooks, CaseGets, ReadKeys, Screen!NoKey
  <1>3. h.held.key[2] < h.count + 1 /\ \A q \in h.flying : q.key[2] < h.count + 1
    BY <1>2 DEF FreshSince
  <1>4. \A c : h.held.key # <<c, h.count + 1>> /\ \A q \in h.flying : q.key # <<c, h.count + 1>>
    BY <1>2, <1>3
  <1> QED
    BY <1>1, <1>2, <1>3, <1>4 DEF FreshSince

\* A GET just sent has brought nothing yet.
LEMMA CaseSent ==
  ASSUME NEW h \in CaseHooks, NEW K, FreshSince(h, K), NEW t \in Case
  PROVE  Screen!Sent(h, t) \in CaseHooks /\ FreshSince(Screen!Sent(h, t), K)
  <1> SUFFICES ASSUME ~Screen!Flushed(h, t)
               PROVE  Screen!Sent(h, t) \in CaseHooks /\ FreshSince(Screen!Sent(h, t), K)
    BY DEF Screen!Sent
  <1> DEFINE s == Screen!Sent(h, t)
             g == Screen!Get(h.latest + 1, <<t, h.count>>)
             F == {[q EXCEPT !.aborted = TRUE] : q \in h.flying} \cup {g}
  <1>1. Screen!Key(h, t) = <<t, h.count>> /\ <<t, h.count>> \in ReadKeys
    BY PartsAssumption DEF Screen!Key, ReadKeys, CaseHooks, Screen!CaseAssumption
  <1>2. g \in CaseGets /\ g.key = <<t, h.count>> /\ g.answer = "none" /\ ~g.aborted
    BY <1>1 DEF CaseHooks, CaseGets, Screen!Get
  <1>3. Screen!Issued(h, t) = [h EXCEPT !.issued = <<t, h.count>>, !.latest = h.latest + 1, !.flying = F]
    BY <1>1 DEF Screen!Issued
  <1> HIDE DEF g
  <1>4. {q \in F : ~q.aborted} = {g}
    <2>1. ASSUME NEW q \in h.flying
          PROVE  [q EXCEPT !.aborted = TRUE].aborted
      BY DEF CaseHooks, CaseGets
    <2> QED
      BY <1>2, <2>1
  <1> HIDE DEF F
  <1>5. s = [h EXCEPT !.issued = <<t, h.count>>, !.latest = h.latest + 1, !.flying = {g}]
    <2>1. Screen!Issued(h, t).flying = F
      BY <1>3 DEF CaseHooks
    <2>2. s = [Screen!Issued(h, t) EXCEPT !.flying = {g}]
      BY <2>1, <1>4 DEF Screen!Sent
    <2> QED
      BY <2>1, <2>2, <1>3 DEF CaseHooks
  <1> HIDE DEF s
  <1>6. s \in CaseHooks
    <2>1. /\ {g} \in SUBSET CaseGets /\ h.latest + 1 \in Nat
          /\ <<t, h.count>> \in ReadKeys \cup {Screen!NoKey}
      BY <1>1, <1>2 DEF CaseHooks
    <2> QED
      BY <2>1, <1>5 DEF CaseHooks
  <1>7. s.flying = {g} /\ s.held = h.held /\ s.count = h.count
    BY <1>5 DEF CaseHooks
  <1>8. FreshSince(s, K)
    BY <1>2, <1>7 DEF FreshSince, CaseHooks
  <1> QED
    BY <1>6, <1>8 DEF s

\* The server answers with the version it holds.
LEMMA CaseAnswered ==
  ASSUME NEW h \in CaseHooks, NEW K \in SUBSET Case, FreshSince(h, K),
         NEW q \in h.flying, NEW ok \in BOOLEAN, NEW v \in 1..2,
         \A c \in K : q.key[1] = c => v = 2
  PROVE  /\ Screen!Answered(h, q, ok, v) \in CaseHooks /\ FreshSince(Screen!Answered(h, q, ok, v), K)
         /\ Screen!Answered(h, q, ok, v).issued = h.issued
  <1> DEFINE n == Screen!Answered(h, q, ok, v)
             a == [q EXCEPT !.answer = IF ok THEN "loaded" ELSE "failed",
                            !.version = IF ok THEN v ELSE 0]
  <1>1. q \in CaseGets
    BY DEF CaseHooks
  <1>2. a \in CaseGets /\ a.key = q.key /\ (a.answer = "loaded" => a.version = v)
    <2>1. v \in Nat /\ 0 \in Nat
      OBVIOUS
    <2>2. CASE ok
      <3>1. a = [q EXCEPT !.answer = "loaded", !.version = v]
        BY <2>2
      <3> QED
        BY <2>1, <3>1, <1>1 DEF CaseGets
    <2>3. CASE ~ok
      <3>1. a = [q EXCEPT !.answer = "failed", !.version = 0]
        BY <2>3
      <3> QED
        BY <2>1, <3>1, <1>1 DEF CaseGets
    <2> QED
      BY <2>2, <2>3
  <1>3. n = [h EXCEPT !.flying = (@ \ {q}) \cup {a}]
    BY DEF Screen!Answered
  <1> HIDE DEF a, n
  <1>4. n \in CaseHooks /\ n.issued = h.issued
    BY <1>2, <1>3 DEF CaseHooks
  <1>5. n.flying = (h.flying \ {q}) \cup {a} /\ n.held = h.held /\ n.count = h.count
    BY <1>3 DEF CaseHooks
  <1>6. \A c \in K : a.key = <<c, h.count>> /\ a.answer = "loaded" => a.version = 2
    BY <1>2
  <1>7. FreshSince(n, K)
    BY <1>2, <1>5, <1>6 DEF FreshSince
  <1> QED
    BY <1>4, <1>7 DEF n

\* What is delivered was fresh on its way.
LEMMA CaseDelivered ==
  ASSUME NEW h \in CaseHooks, NEW K, FreshSince(h, K), NEW q \in h.flying, q.answer # "none"
  PROVE  /\ Screen!Delivered(h, q) \in CaseHooks /\ FreshSince(Screen!Delivered(h, q), K)
         /\ Screen!Delivered(h, q).issued = h.issued
  <1> DEFINE n == Screen!Delivered(h, q)
  <1>1. q \in CaseGets /\ q.key \in ReadKeys /\ q.version \in Nat
    BY DEF CaseHooks, CaseGets
  <1>2. n \in CaseHooks /\ n.issued = h.issued /\ n.count = h.count /\ n.flying = h.flying \ {q}
    BY <1>1 DEF Screen!Delivered, CaseHooks
  <1>3. n.held = IF Screen!IsCurrent(h, q) /\ q.answer = "loaded"
                   THEN [key |-> q.key, version |-> q.version] ELSE h.held
    BY DEF Screen!Delivered, CaseHooks
  <1> HIDE DEF n
  <1>4. FreshSince(n, K)
    <2>1. CASE Screen!IsCurrent(h, q) /\ q.answer = "loaded"
      <3>1. n.held.key = q.key /\ n.held.version = q.version
        BY <2>1, <1>3
      <3> QED
        BY <3>1, <2>1, <1>2 DEF FreshSince
    <2>2. CASE ~(Screen!IsCurrent(h, q) /\ q.answer = "loaded")
      <3>1. n.held = h.held
        BY <2>2, <1>3
      <3> QED
        BY <3>1, <1>2 DEF FreshSince
    <2> QED
      BY <2>1, <2>2
  <1> QED
    BY <1>2, <1>4 DEF n

\* The mounted screen.
LEMMA ScreenInit == Screen!Init => ScreenInv
  <1> SUFFICES ASSUME Screen!Init PROVE ScreenInv
    OBVIOUS
  <1>1. /\ Screen!Mounted \in CaseHooks /\ Screen!Mounted.flying = {} /\ Screen!Mounted.issued = Screen!NoKey
        /\ Screen!Mounted.held.key[2] = 0 /\ Screen!Mounted.count = 0
    BY DEF Screen!Mounted, CaseHooks, Screen!NothingHeld, Screen!NoKey
  <1>2. Screen!NewPanel(0) \in Panels /\ Screen!NewPanel(0).kind = "choosing" /\ ~Screen!NewPanel(0).submitting
    BY DEF Screen!NewPanel, Panels
  <1>3. ScreenTyped
    BY <1>1, <1>2 DEF Screen!Init, ScreenTyped
  <1>4. ReadsAreFresh
    BY <1>1 DEF Screen!Init, ReadsAreFresh, FreshSince
  <1> QED
    BY <1>1, <1>2, <1>3, <1>4
    DEF Screen!Init, ScreenInv, NothingReadUnselected, DecisionsOnPending, PostsOfThePanel,
       RecordedIsKnown

\* A new panel has sent nothing.
LEMMA SelectKept ==
  ASSUME ScreenInv, NEW c \in Case, Screen!Select(c)
  PROVE  ScreenInv'
  <1> USE DEF Screen!Select
  <1>1. /\ panel' \in Panels /\ panel'.serial = panel.serial + 1
        /\ panel'.kind = "choosing" /\ ~panel'.submitting
    BY DEF Screen!NewPanel, Panels, ScreenInv, ScreenTyped
  <1>2. panel.serial \in Nat /\ \A p \in posts : p.serial \in Nat
    BY DEF Panels, Posts, ScreenInv, ScreenTyped
  <1>3. \A p \in posts : p.serial < panel'.serial
    BY <1>1, <1>2 DEF ScreenInv, PostsOfThePanel
  <1>4. PostsOfThePanel'
    BY <1>1, <1>2, <1>3 DEF ScreenInv, PostsOfThePanel
  <1>5. ScreenTyped'
    BY <1>1 DEF ScreenInv, ScreenTyped
  <1>6. selected' # None
    BY PartsAssumption DEF Screen!CaseAssumption
  <1> QED
    BY <1>1, <1>4, <1>5, <1>6
    DEF ScreenInv, ReadsAreFresh, NothingReadUnselected, DecisionsOnPending, RecordedIsKnown

\* Reads change the two hooks only.
LEMMA ReadKept ==
  ASSUME ScreenInv, UNCHANGED <<selected, panel, posts, version, sent, known>>,
         detail' \in CaseHooks, history' \in CaseHooks,
         FreshSince(detail', known), FreshSince(history', known),
         selected = None => detail'.issued = Screen!NoKey /\ history'.issued = Screen!NoKey
  PROVE  ScreenInv'
  <1>1. ReadsAreFresh'
    BY DEF ReadsAreFresh
  <1> QED
    BY <1>1 DEF ScreenInv, ScreenTyped, NothingReadUnselected, DecisionsOnPending,
                PostsOfThePanel, RecordedIsKnown

\* Refreshing, retrying and sending.
LEMMA ReadsKept ==
  ASSUME ScreenInv, Screen!RefreshCase \/ Screen!RetryDetail \/ Screen!RunEffects
  PROVE  ScreenInv'
  <1> USE DEF ScreenInv, ScreenTyped, ReadsAreFresh, NothingReadUnselected
  <1>1. CASE Screen!RefreshCase \/ Screen!RetryDetail
    <2>1. /\ detail' = Screen!Refreshed(detail) /\ history' \in {history, Screen!Refreshed(history)}
          /\ UNCHANGED <<selected, panel, posts, version, sent, known>>
      BY <1>1 DEF Screen!RefreshCase, Screen!RetryDetail
    <2>2. /\ detail' \in CaseHooks /\ FreshSince(detail', known) /\ detail'.issued = detail.issued
      BY <2>1, CaseRefreshed
    <2>3. /\ history' \in CaseHooks /\ FreshSince(history', known) /\ history'.issued = history.issued
      BY <2>1, CaseRefreshed
    <2> QED
      BY <2>1, <2>2, <2>3, ReadKept
  <1>2. CASE Screen!RunEffects
    <2>1. /\ detail' = Screen!Sent(detail, selected) /\ history' = Screen!Sent(history, selected)
          /\ ~Screen!AllFlushed
          /\ UNCHANGED <<selected, panel, posts, version, sent, known>>
      BY <1>2 DEF Screen!RunEffects
    <2>2. selected # None
      BY <2>1 DEF Screen!AllFlushed, Screen!Flushed, Screen!Key
    <2>3. selected \in Case
      BY <2>2
    <2>4. detail' \in CaseHooks /\ FreshSince(detail', known)
      BY <2>1, <2>3, CaseSent
    <2>5. history' \in CaseHooks /\ FreshSince(history', known)
      BY <2>1, <2>3, CaseSent
    <2> QED
      BY <2>1, <2>2, <2>4, <2>5, ReadKept
  <1> QED
    BY <1>1, <1>2

\* Answers and deliveries.
LEMMA AnswersKept ==
  ASSUME ScreenInv, Screen!ReadingDetail \/ Screen!ReadingHistory
  PROVE  ScreenInv'
  <1> USE DEF ScreenInv, ScreenTyped, ReadsAreFresh, NothingReadUnselected
  <1>1. ASSUME NEW h \in CaseHooks, FreshSince(h, known), NEW q \in h.flying, NEW ok \in BOOLEAN
        PROVE  /\ Screen!Answered(h, q, ok, version[q.key[1]]) \in CaseHooks
               /\ FreshSince(Screen!Answered(h, q, ok, version[q.key[1]]), known)
               /\ Screen!Answered(h, q, ok, version[q.key[1]]).issued = h.issued
    <2>1. q.key[1] \in Case
      BY DEF CaseHooks, CaseGets, ReadKeys
    <2>2. version[q.key[1]] \in 1..2 /\ \A c \in known : q.key[1] = c => version[q.key[1]] = 2
      BY <2>1 DEF DecisionsOnPending
    <2> QED
      BY <1>1, <2>2, CaseAnswered
  <1>2. CASE Screen!ReadingDetail
    <2>1. PICK q \in detail.flying : Screen!DeliverDetail(q) \/ \E ok \in BOOLEAN : Screen!AnswerDetail(q, ok)
      BY <1>2 DEF Screen!ReadingDetail
    <2>2. /\ history' = history /\ UNCHANGED <<selected, panel, posts, version, sent, known>>
          /\ \/ q.answer # "none" /\ detail' = Screen!Delivered(detail, q)
             \/ \E ok \in BOOLEAN : detail' = Screen!Answered(detail, q, ok, version[q.key[1]])
      BY <2>1 DEF Screen!DeliverDetail, Screen!AnswerDetail
    <2>3. detail' \in CaseHooks /\ FreshSince(detail', known) /\ detail'.issued = detail.issued
      BY <2>2, <1>1, CaseDelivered
    <2> QED
      BY <2>2, <2>3, ReadKept
  <1>3. CASE Screen!ReadingHistory
    <2>1. PICK q \in history.flying :
            Screen!DeliverHistory(q) \/ \E ok \in BOOLEAN : Screen!AnswerHistory(q, ok)
      BY <1>3 DEF Screen!ReadingHistory
    <2>2. /\ detail' = detail /\ UNCHANGED <<selected, panel, posts, version, sent, known>>
          /\ \/ q.answer # "none" /\ history' = Screen!Delivered(history, q)
             \/ \E ok \in BOOLEAN : history' = Screen!Answered(history, q, ok, version[q.key[1]])
      BY <2>1 DEF Screen!DeliverHistory, Screen!AnswerHistory
    <2>3. history' \in CaseHooks /\ FreshSince(history', known) /\ history'.issued = history.issued
      BY <2>2, <1>1, CaseDelivered
    <2> QED
      BY <2>2, <2>3, ReadKept
  <1> QED
    BY <1>2, <1>3

\* A decision is opened on a case shown as pending.
LEMMA PanelKept ==
  ASSUME ScreenInv, Screen!Choose \/ Screen!Cancel
  PROVE  ScreenInv'
  <1>1. /\ panel' \in Panels /\ panel'.serial = panel.serial /\ panel'.submitting = panel.submitting
        /\ ~panel.submitting /\ panel'.kind \in {"choosing", "confirming"}
        /\ panel'.kind = "confirming" => panel'.version = 1
        /\ UNCHANGED <<selected, detail, history, posts, version, sent, known>>
    <2>1. CASE Screen!Choose
      <3>1. detail.held.version = 1
        BY <2>1 DEF Screen!Choose, Screen!DecisionsOffered, Screen!ShowControls
      <3>2. panel' = [panel EXCEPT !.kind = "confirming", !.version = 1, !.outcome = "none"]
        BY <2>1, <3>1 DEF Screen!Choose
      <3>3. panel \in Panels
        BY DEF ScreenInv, ScreenTyped
      <3>4. /\ panel' \in Panels /\ panel'.serial = panel.serial
            /\ panel'.submitting = panel.submitting
            /\ panel'.kind = "confirming" /\ panel'.version = 1
        BY <3>2, <3>3 DEF Panels
      <3> QED
        BY <2>1, <3>4 DEF Screen!Choose, Screen!DecisionsOffered, Screen!Busy
    <2>2. CASE Screen!Cancel
      BY <2>2 DEF Screen!Cancel, ScreenInv, ScreenTyped, Panels
    <2> QED
      BY <2>1, <2>2
  <1>2. PostsOfThePanel'
    BY <1>1 DEF ScreenInv, PostsOfThePanel
  <1> QED
    BY <1>1, <1>2 DEF ScreenInv, ScreenTyped, ReadsAreFresh, NothingReadUnselected,
                      DecisionsOnPending, RecordedIsKnown

\* The POST of a confirmation is the only unanswered one of its panel.
LEMMA ConfirmKept ==
  ASSUME ScreenInv, Screen!Confirm
  PROVE  ScreenInv'
  <1> DEFINE p == [id |-> sent + 1, serial |-> panel.serial, case |-> selected,
                   version |-> panel.version, served |-> "no", heard |-> FALSE]
  <1>1. /\ panel' = [panel EXCEPT !.submitting = TRUE] /\ posts' = posts \cup {p} /\ sent' = sent + 1
        /\ UNCHANGED <<selected, detail, history, version, known>>
        /\ Screen!ActiveIntent /\ ~panel.submitting
    BY DEF Screen!Confirm
  <1>2. selected \in Case /\ panel.kind = "confirming" /\ panel.version = 1
    BY <1>1 DEF Screen!ActiveIntent, Screen!ShowCase, Screen!Holds, ScreenInv, ScreenTyped,
       DecisionsOnPending
  <1>3. /\ p \in Posts /\ p.version = 1 /\ p.served = "no" /\ p.id = sent + 1
        /\ p.serial = panel.serial /\ p.case = selected /\ ~p.heard
    BY <1>2 DEF ScreenInv, ScreenTyped, Posts, Panels
  <1> HIDE DEF p
  <1>4. /\ panel' \in Panels /\ panel'.serial = panel.serial /\ panel'.submitting
        /\ panel'.kind = "confirming" /\ panel'.version = 1
    BY <1>1, <1>2 DEF ScreenInv, ScreenTyped, Panels
  <1>5. ScreenTyped'
    BY <1>1, <1>3, <1>4 DEF ScreenInv, ScreenTyped
  <1>6. DecisionsOnPending'
    BY <1>1, <1>3, <1>4 DEF ScreenInv, DecisionsOnPending
  <1>7. PostsOfThePanel'
    <2>1. sent \in Nat /\ panel.serial \in Nat /\ \A o \in posts : o.id \in Nat /\ o.serial \in Nat
      BY DEF ScreenInv, ScreenTyped, Panels, Posts
    <2>2. \A o \in posts : o.id # p.id /\ o.id <= sent + 1 /\ o.serial <= panel.serial
      BY <2>1, <1>3 DEF ScreenInv, PostsOfThePanel
    <2>3. \A o \in posts : ~(o.serial = panel.serial /\ ~o.heard)
      BY <1>1 DEF ScreenInv, PostsOfThePanel
    <2>4. p.id <= sent + 1 /\ p.serial <= panel.serial
      BY <2>1, <1>3
    <2> QED
      BY <2>2, <2>3, <2>4, <1>1, <1>3, <1>4 DEF ScreenInv, PostsOfThePanel
  <1> QED
    BY <1>1, <1>4, <1>5, <1>6, <1>7
    DEF ScreenInv, ReadsAreFresh, NothingReadUnselected, RecordedIsKnown

\* A recorded POST found its case pending and leaves it decided.
LEMMA ServeKept ==
  ASSUME ScreenInv, NEW p \in posts, Screen!Serve(p)
  PROVE  ScreenInv'
  <1>1. PICK verdict \in IF version[p.case] = p.version THEN {"recorded", "refused"} ELSE {"conflict"} :
          /\ version' = IF verdict = "recorded" THEN [version EXCEPT ![p.case] = @ + 1] ELSE version
          /\ posts' = (posts \ {p}) \cup IF p.heard THEN {} ELSE {[p EXCEPT !.served = verdict]}
    BY DEF Screen!Serve
  <1> DEFINE a == [p EXCEPT !.served = verdict]
  <1>2. UNCHANGED <<selected, detail, history, panel, sent, known>>
    BY DEF Screen!Serve
  <1>3. p \in Posts /\ p.case \in Case /\ p.version = 1
    BY DEF ScreenInv, ScreenTyped, Posts, DecisionsOnPending
  <1>4. verdict = "recorded" => version[p.case] = 1
    BY <1>1, <1>3
  <1>5. /\ version' \in [Case -> 1..2]
        /\ \A c \in Case : version[c] = 2 => version'[c] = 2
        /\ verdict = "recorded" => version'[p.case] = 2
    <2>1. CASE verdict = "recorded"
      <3>1. version' = [version EXCEPT ![p.case] = 2]
        <4>1. version' = [version EXCEPT ![p.case] = version[p.case] + 1]
          BY <2>1, <1>1
        <4>2. version[p.case] + 1 = 2
          BY <2>1, <1>4
        <4> QED
          BY <4>1, <4>2, Zenon
      <3> QED
        BY <3>1, <1>3 DEF ScreenInv, ScreenTyped
    <2>2. CASE verdict # "recorded"
      BY <2>2, <1>1 DEF ScreenInv, ScreenTyped
    <2> QED
      BY <2>1, <2>2
  <1>6. /\ a \in Posts /\ a.id = p.id /\ a.serial = p.serial /\ a.case = p.case /\ a.version = p.version
        /\ a.heard = p.heard /\ a.served = verdict
    <2>1. verdict \in {"recorded", "refused", "conflict"}
      BY <1>1
    <2> QED
      BY <2>1, <1>3 DEF Posts
  <1> HIDE DEF a
  <1>7. posts' = (posts \ {p}) \cup IF p.heard THEN {} ELSE {a}
    BY <1>1 DEF a
  <1>8. ScreenTyped'
    BY <1>2, <1>5, <1>6, <1>7 DEF ScreenInv, ScreenTyped
  <1>9. DecisionsOnPending'
    <2>1. \A o \in posts : o.case \in Case
      BY DEF ScreenInv, ScreenTyped, Posts
    <2> QED
      BY <2>1, <1>2, <1>3, <1>5, <1>6, <1>7 DEF ScreenInv, ScreenTyped, DecisionsOnPending
  <1>10. PostsOfThePanel'
    <2>1. CASE p.heard
      BY <2>1, <1>2, <1>7 DEF ScreenInv, PostsOfThePanel
    <2>2. CASE ~p.heard
      <3>1. posts' = (posts \ {p}) \cup {a}
        BY <2>2, <1>7
      <3> QED
        BY <3>1, <2>2, <1>2, <1>6 DEF ScreenInv, PostsOfThePanel
    <2> QED
      BY <2>1, <2>2
  <1> QED
    BY <1>2, <1>8, <1>9, <1>10
    DEF ScreenInv, ReadsAreFresh, NothingReadUnselected, RecordedIsKnown

\* The answer ends the submission, and a recorded decision starts a new count.
LEMMA SettleKept ==
  ASSUME ScreenInv, NEW p \in posts, NEW o \in Screen!Outcomes(p), Screen!Settle(p, o)
  PROVE  ScreenInv'
  <1> DEFINE a == [p EXCEPT !.heard = TRUE]
  <1>1. p \in Posts /\ p.case \in Case /\ o \in {"lost", "recorded", "refused", "conflict"}
    BY DEF ScreenInv, ScreenTyped, Posts, Screen!Outcomes
  <1>2. o = "recorded" => version[p.case] = 2
    BY DEF Screen!Outcomes, ScreenInv, DecisionsOnPending
  <1>3. UNCHANGED <<selected, version, sent>> /\ ~p.heard
    BY DEF Screen!Settle
  <1>4. /\ a \in Posts /\ a.id = p.id /\ a.serial = p.serial /\ a.case = p.case /\ a.version = p.version
        /\ a.heard /\ a.served = p.served
    BY <1>1 DEF Posts
  <1>5. posts' = (posts \ {p}) \cup IF p.served = "no" THEN {a} ELSE {}
    BY DEF Screen!Settle
  <1> HIDE DEF a
  <1>6. known' = (IF o = "recorded" THEN known \cup {p.case} ELSE known) /\ known' \in SUBSET Case
    BY <1>1 DEF Screen!Settle, ScreenInv, ScreenTyped
  <1>7. /\ panel' \in Panels /\ panel'.serial = panel.serial
        /\ panel.serial # p.serial => panel' = panel
        /\ panel.serial = p.serial => panel'.kind = "settled" /\ panel'.outcome = o /\ ~panel'.submitting
    BY <1>1 DEF Screen!Settle, Screen!PanelSettled, ScreenInv, ScreenTyped, Panels
  <1>8. /\ detail' \in CaseHooks /\ history' \in CaseHooks
        /\ detail'.issued = detail.issued /\ history'.issued = history.issued
        /\ FreshSince(detail', known') /\ FreshSince(history', known')
    <2>1. CASE Screen!Reconciles(o)
      BY <2>1, CaseRefreshed DEF Screen!Settle, Screen!Reconciled, ScreenInv, ScreenTyped,
         ReadsAreFresh
    <2>2. CASE ~Screen!Reconciles(o)
      <3>1. known' = known
        BY <2>2, <1>6 DEF Screen!Reconciles
      <3> QED
        BY <2>2, <3>1 DEF Screen!Settle, Screen!Hooks, ScreenInv, ScreenTyped, ReadsAreFresh
    <2> QED
      BY <2>1, <2>2
  <1>9. ScreenTyped'
    BY <1>3, <1>4, <1>5, <1>6, <1>7, <1>8 DEF ScreenInv, ScreenTyped
  <1>10. DecisionsOnPending'
    <2>1. panel'.kind = "confirming" => panel' = panel
      BY <1>7
    <2> QED
      BY <2>1, <1>2, <1>3, <1>4, <1>5, <1>6 DEF ScreenInv, DecisionsOnPending
  <1>11. PostsOfThePanel'
    <2>1. CASE panel.serial # p.serial
      <3>1. panel' = panel
        BY <2>1, <1>7
      <3>2. CASE p.served = "no"
        <4>1. posts' = (posts \ {p}) \cup {a}
          BY <3>2, <1>5
        <4> QED
          BY <2>1, <3>1, <4>1, <1>3, <1>4 DEF ScreenInv, PostsOfThePanel
      <3>3. CASE p.served # "no"
        <4>1. posts' = posts \ {p}
          BY <3>3, <1>5
        <4> QED
          BY <2>1, <3>1, <4>1, <1>3 DEF ScreenInv, PostsOfThePanel
      <3> QED
        BY <3>2, <3>3
    <2>2. CASE panel.serial = p.serial
      <3>1. \A x \in posts' : ~(x.serial = panel'.serial /\ ~x.heard)
        BY <2>2, <1>3, <1>4, <1>5, <1>7 DEF ScreenInv, PostsOfThePanel
      <3>2. \A x \in posts' : x = a \/ (x \in posts /\ x # p)
        BY <1>5
      <3>3. \A x \in posts' : x.id <= sent /\ x.serial <= panel.serial
                                /\ (x.serial = panel.serial => x.case = selected)
        BY <3>2, <1>4 DEF ScreenInv, PostsOfThePanel
      <3>4. \A x, y \in posts' : x.id = y.id => x = y
        BY <3>2, <1>4 DEF ScreenInv, PostsOfThePanel
      <3> QED
        BY <2>2, <3>1, <3>3, <3>4, <1>3, <1>7 DEF PostsOfThePanel
    <2> QED
      BY <2>1, <2>2
  <1>12. RecordedIsKnown'
    <2>1. CASE panel.serial = p.serial
      <3>1. p.case = selected
        BY <2>1 DEF ScreenInv, PostsOfThePanel
      <3> QED
        BY <2>1, <3>1, <1>3, <1>6, <1>7 DEF RecordedIsKnown
    <2>2. CASE panel.serial # p.serial
      BY <2>2, <1>3, <1>6, <1>7 DEF ScreenInv, RecordedIsKnown
    <2> QED
      BY <2>1, <2>2
  <1> QED
    BY <1>3, <1>8, <1>9, <1>10, <1>11, <1>12 DEF ScreenInv, ReadsAreFresh, NothingReadUnselected

\* Cases only move from pending to decided.
LEMMA ElsewhereKept ==
  ASSUME ScreenInv, NEW c \in Case, Screen!DecideElsewhere(c)
  PROVE  ScreenInv'
  <1>1. /\ version' = [version EXCEPT ![c] = 2]
        /\ UNCHANGED <<selected, detail, history, panel, posts, sent, known>>
    BY DEF Screen!DecideElsewhere
  <1>2. version' \in [Case -> 1..2] /\ \A d \in Case : version[d] = 2 => version'[d] = 2
    BY <1>1 DEF ScreenInv, ScreenTyped
  <1>3. ScreenTyped'
    BY <1>1, <1>2 DEF ScreenInv, ScreenTyped
  <1>4. DecisionsOnPending'
    <2>1. \A o \in posts : o.case \in Case
      BY DEF ScreenInv, ScreenTyped, Posts
    <2> QED
      BY <2>1, <1>1, <1>2 DEF ScreenInv, ScreenTyped, DecisionsOnPending
  <1> QED
    BY <1>1, <1>3, <1>4
    DEF ScreenInv, ReadsAreFresh, NothingReadUnselected, PostsOfThePanel, RecordedIsKnown

\* The invariant of the screen is inductive.
LEMMA ScreenNext == ScreenInv /\ [Screen!Next]_(Screen!vars) => ScreenInv'
  <1> SUFFICES ASSUME ScreenInv, [Screen!Next]_(Screen!vars) PROVE ScreenInv'
    OBVIOUS
  <1>1. CASE UNCHANGED Screen!vars
    BY <1>1 DEF Screen!vars, ScreenInv, ScreenTyped, ReadsAreFresh, NothingReadUnselected,
                DecisionsOnPending, PostsOfThePanel, RecordedIsKnown
  <1> QED
    BY <1>1, SelectKept, ReadsKept, AnswersKept, PanelKept, ConfirmKept, ServeKept, SettleKept,
       ElsewhereKept
    DEF Screen!Next, Screen!Settling

\* It holds throughout.
LEMMA ScreenInvariant == Screen!Spec => []ScreenInv
  BY ScreenInit, ScreenNext, PTL DEF Screen!Spec

\* One unanswered POST while the panel submits.
LEMMA ScreenTypes == ScreenInv => Screen!TypeOK
  <1> SUFFICES ASSUME ScreenInv PROVE Screen!TypeOK
    OBVIOUS
  <1> DEFINE mine == {p \in posts : p.serial = panel.serial /\ ~p.heard}
  <1>1. Cardinality(mine) = IF panel.submitting THEN 1 ELSE 0
    <2>1. CASE panel.submitting
      <3>1. PICK p \in posts : p.serial = panel.serial /\ ~p.heard
        BY <2>1 DEF ScreenInv, PostsOfThePanel
      <3>2. mine = {p}
        BY <3>1 DEF ScreenInv, PostsOfThePanel
      <3> QED
        BY <2>1, <3>2, FS_Singleton
    <2>2. CASE ~panel.submitting
      <3>1. mine = {}
        BY <2>2 DEF ScreenInv, PostsOfThePanel
      <3> QED
        BY <2>2, <3>1, FS_EmptySet
    <2> QED
      BY <2>1, <2>2
  <1> HIDE DEF mine
  <1>2. panel.kind \in {"choosing", "confirming", "settled"}
    BY DEF ScreenInv, ScreenTyped, Panels
  <1>3. \A p, q \in posts : p.id = q.id => p = q
    BY DEF ScreenInv, PostsOfThePanel
  <1>4. panel.submitting => panel.kind = "confirming"
    BY DEF ScreenInv, PostsOfThePanel
  <1> QED
    BY <1>1, <1>2, <1>3, <1>4, CountsAgree DEF ScreenInv, ScreenTyped, Screen!TypeOK, mine

\* A read that is ready has the key of the present refresh of the selected case.
LEMMA ReadyKeys ==
  ASSUME NEW h, NEW t \in Case, Screen!Status(h, t) \notin {"loading", "updating", "failed"}
  PROVE  h.held.key = <<t, h.count>>
  <1>1. t # None
    BY PartsAssumption DEF Screen!CaseAssumption
  <1>2. Screen!Status(h, t) = "ready" /\ ~Screen!Failed(h, t) /\ h.held.key = Screen!Key(h, t)
    BY <1>1 DEF Screen!Status
  <1> QED
    BY <1>1, <1>2 DEF Screen!Key

\* The controls need a read of the present count at version 1.
LEMMA NotOfferedAgain == ScreenInv => Screen!RecordedIsNotOfferedAgain
  <1> SUFFICES ASSUME ScreenInv, Screen!DecisionsOffered, selected \in known PROVE FALSE
    BY DEF Screen!RecordedIsNotOfferedAgain
  <1>1. selected \in Case /\ detail.held.version = 1
    BY DEF ScreenInv, ScreenTyped, Screen!DecisionsOffered, Screen!ShowControls
  <1>2. Screen!Status(detail, selected) \notin {"loading", "updating"} /\ ~Screen!Failed(detail, selected)
    BY DEF Screen!DecisionsOffered, Screen!Busy, Screen!IsReadingCase, Screen!ShowControls,
       Screen!ShowCase
  <1>3. Screen!Status(detail, selected) # "failed"
    BY <1>2 DEF Screen!Status
  <1>4. detail.held.key = <<selected, detail.count>>
    BY <1>1, <1>2, <1>3, ReadyKeys
  <1> QED
    BY <1>1, <1>4 DEF ScreenInv, ReadsAreFresh, FreshSince

\* Without a reading or a failed hook, both hold the present count.
LEMMA ConvergedFresh == ScreenInv => Screen!ConvergedMeansFresh
  <1> SUFFICES ASSUME ScreenInv, panel.kind = "settled", panel.outcome = "recorded",
                      ~Screen!IsReconciling, ~Screen!ReconcileFailed
               PROVE  detail.held.version = 2 /\ history.held.version = 2
    BY DEF Screen!ConvergedMeansFresh
  <1>1. selected \in known /\ selected \in Case
    BY DEF ScreenInv, ScreenTyped, RecordedIsKnown
  <1>2. Screen!AwaitingReads
    BY DEF Screen!AwaitingReads, Screen!Reconciles
  <1>3. ~Screen!IsReadingCase /\ ~Screen!CaseReadFailed
    BY <1>2 DEF Screen!IsReconciling, Screen!ReconcileFailed
  <1>4. /\ Screen!Status(detail, selected) \notin {"loading", "updating", "failed"}
        /\ Screen!Status(history, selected) \notin {"loading", "updating", "failed"}
    BY <1>3 DEF Screen!IsReadingCase, Screen!CaseReadFailed
  <1>5. detail.held.key = <<selected, detail.count>> /\ history.held.key = <<selected, history.count>>
    BY <1>1, <1>4, ReadyKeys
  <1> QED
    BY <1>1, <1>5 DEF ScreenInv, ReadsAreFresh, FreshSince

\* Only a confirmation sends.
LEMMA ShownIsSent ==
  ASSUME ScreenInv, [Screen!Next]_(Screen!vars), sent' > sent, NEW p \in posts' \ posts
  PROVE  p.case = selected /\ Screen!ShowCase /\ p.version = detail.held.version
  <1>1. sent' # sent
    BY DEF ScreenInv, ScreenTyped
  <1>2. Screen!Confirm
    BY <1>1 DEF Screen!Next, Screen!vars, Screen!Select, Screen!DecideElsewhere,
       Screen!RefreshCase, Screen!RetryDetail, Screen!RunEffects,
                Screen!ReadingDetail, Screen!ReadingHistory, Screen!DeliverDetail,
                Screen!DeliverHistory, Screen!AnswerDetail,
                Screen!AnswerHistory, Screen!Choose, Screen!Cancel, Screen!Serve, Screen!Settling,
                Screen!Settle
  <1>3. p = [id |-> sent + 1, serial |-> panel.serial, case |-> selected,
             version |-> panel.version, served |-> "no", heard |-> FALSE]
    BY <1>2 DEF Screen!Confirm
  <1> QED
    BY <1>2, <1>3 DEF Screen!Confirm, Screen!ActiveIntent

\* In every step.
LEMMA ShownThroughout == Screen!Spec => Screen!SentAsShown
  <1>1. ScreenInv /\ [Screen!Next]_(Screen!vars) =>
          [sent' > sent => \A p \in posts' \ posts :
              p.case = selected /\ Screen!ShowCase /\ p.version = detail.held.version]_(Screen!vars)
    BY ShownIsSent
  <1> QED
    BY <1>1, ScreenInvariant, PTL DEF Screen!Spec, Screen!SentAsShown

-----------------------------------------------------------------------------
(* The whole *)

\* A step of the whole is a step of every part, or leaves it as it is.
LEMMA StepsOfTheParts ==
  [MCNext]_<<part, vars, pagingVars, screenVars>> =>
    [Next]_vars /\ [Paging!Next]_(Paging!vars) /\ [Screen!Next]_(Screen!vars)
  <1> SUFFICES ASSUME [MCNext]_<<part, vars, pagingVars, screenVars>>
               PROVE  [Next]_vars /\ [Paging!Next]_(Paging!vars) /\ [Screen!Next]_(Screen!vars)
    OBVIOUS
  <1>1. UNCHANGED pagingVars => UNCHANGED Paging!vars
    BY DEF pagingVars, Paging!vars
  <1>2. UNCHANGED screenVars => UNCHANGED Screen!vars
    BY DEF screenVars, Screen!vars
  <1> QED
    BY <1>1, <1>2 DEF MCNext

\* Panel, queue and screen each run as their own module specifies, whatever the other
\* two do.
THEOREM PartsRunAsSpecified == MCSpec => Spec /\ Paging!Spec /\ Screen!Spec
  <1>1. MCInit => Init /\ Paging!Init /\ Screen!Init
    BY DEF MCInit
  <1> QED
    BY <1>1, StepsOfTheParts, PTL DEF MCSpec, Spec, Paging!Spec, Screen!Spec

\* The three hooks keep their types, offsets stay on page boundaries, and the panel has
\* at most one unanswered POST (useCaseResource, App, ResolutionPanel).
THEOREM FrontendIsTyped == MCSpec => []TypesOK
  BY PartsRunAsSpecified, TypeCorrect, PagingInvariant, PagingTypes, ScreenInvariant, ScreenTypes,
     PTL DEF TypesOK

\* Whatever is registered, decided and answered meanwhile, the reviewer is not left on an
\* empty page beyond the end, and one action causes at most one recovery that moves the
\* page: "this cannot loop" (App's effect on the loaded page).
THEOREM PagesAlwaysRecover == MCSpec => []PagesRecover
  BY PartsRunAsSpecified, PagingInvariant, PagingLeft, PagingRecovers, PTL DEF PagesRecover

\* A decision reported as recorded is not offered again, however late the reads are, and
\* the screen that says so without a warning shows the case as decided (ReviewWorkspace's
\* isReadingCase and reconcileAfterWrite).
THEOREM RecordedDecisionsStayMade == MCSpec => []DecisionsAreOfferedOnce
  BY PartsRunAsSpecified, ScreenInvariant, NotOfferedAgain, ConvergedFresh, PTL
  DEF DecisionsAreOfferedOnce

\* Every POST decides the case on the screen at the version shown there
\* (ResolutionPanel's activeIntent).
THEOREM ShownIsDecided == MCSpec => SentAsShown
  BY PartsRunAsSpecified, ShownThroughout, PTL DEF SentAsShown
=============================================================================
