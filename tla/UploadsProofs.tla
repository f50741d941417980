------------------------------ MODULE UploadsProofs ------------------------------
(***************************************************************************)
(* Proofs about Uploads, for any number of attachments, holders, requests  *)
(* and workers.                                                            *)
(***************************************************************************)
EXTENDS Uploads, TLAPS

Claiming(h) == hold[h].phase \in {"creating", "editing"}

(* A claim that has checked its rows holds their locks until it ends, so   *)
(* that what it checked is still true: nobody else came to hold them, and  *)
(* nobody marked them deleted.                                             *)
ClaimOK(h) ==
    /\ ~Claiming(h) => hold[h].want = {}
    /\ \A a \in hold[h].want :
          /\ lock[a] = h
          /\ Exists(a) /\ ~row[a].deleted
          /\ <<h, a>> \in pivot \/ (Holders(a) \cap Internal = {} /\ (h \in PublicMessage => Holders(a) = {}))

HeldExist == \A h \in Holder : \A a \in HeldBy(h) : Exists(a)

ClaimTypes ==
    /\ row \in [Att -> Row \cup {NoRow}]
    /\ pivot \subseteq Holder \X Att
    /\ hold \in [Holder -> Hold]
    /\ lock \in [Att -> Holder \cup {Free}]

IInv ==
    /\ ClaimTypes
    /\ HeldExist
    /\ \A h \in Holder : ClaimOK(h)
    /\ NeverShared

-------------------------------------------------------------------------------

(* Nothing is held at first.                                               *)
LEMMA InitIInv == Init => IInv
<1> SUFFICES ASSUME Init PROVE IInv
  OBVIOUS
<1>1. ClaimTypes
  BY DEF Init, ClaimTypes, Hold, Phase
<1>2. \A h \in Holder : ClaimOK(h)
  BY DEF Init, ClaimOK, Claiming
<1>3. NeverShared /\ HeldExist
  BY DEF Init, NeverShared, Holders, HeldExist, HeldBy
<1> QED
  BY <1>1, <1>2, <1>3 DEF IInv

(* A row is updated in place or made; neither marks a row deleted.         *)
RowsUnmarked ==
    /\ row' \in [Att -> Row \cup {NoRow}]
    /\ \A a \in Att : (row'[a].deleted => row[a].deleted) /\ (Exists(a) => Exists(a)')

LEMMA RowUpdates ==
    ASSUME ClaimTypes, NEW a
    PROVE  /\ \A status \in AttachmentStatus : row' = Saved(a, status) => RowsUnmarked
           /\ row' = Derived(a) => RowsUnmarked
           /\ \A from \in Ticketed : a \in Att /\
                 row' = [row EXCEPT ![a] = [status |-> "pending", from |-> from, deleted |-> FALSE, derived |-> FALSE]]
                     => RowsUnmarked
           /\ UNCHANGED row => RowsUnmarked
<1>0. row \in [Att -> Row \cup {NoRow}]
  BY DEF ClaimTypes
<1>1. NoRow \notin Row
  BY DEF NoRow, Row, AttachmentStatus
<1>5. UNCHANGED row => RowsUnmarked
  BY <1>0 DEF RowsUnmarked, Exists
<1>2. ASSUME NEW status \in AttachmentStatus, row' = Saved(a, status) PROVE RowsUnmarked
  <2>3. CASE a \notin Att
    <3>1. CASE row' = row
      BY <1>5, <3>1
    <3>2. CASE row' = [row EXCEPT ![a].status = status]
      <4>1. row' \in [Att -> Row \cup {NoRow}] /\ \A b \in Att : row'[b] = row[b]
        BY <1>0, <2>3, <3>2
      <4> QED
        BY <4>1 DEF RowsUnmarked, Exists
    <3> QED
      BY <1>2, <3>1, <3>2 DEF Saved
  <2>1. CASE a \in Att /\ Exists(a)
    <3>1. row[a] \in Row /\ row' = [row EXCEPT ![a].status = status]
      BY <1>0, <1>2, <2>1 DEF Exists, Saved
    <3>2. [row[a] EXCEPT !.status = status] \in Row /\ [row[a] EXCEPT !.status = status].deleted = row[a].deleted
      BY <1>2, <3>1 DEF Row
    <3> QED
      BY <1>0, <1>1, <3>1, <3>2 DEF RowsUnmarked, Exists
  <2>2. CASE ~Exists(a)
    BY <1>2, <1>5, <2>2 DEF Saved
  <2> QED
    BY <2>1, <2>2, <2>3
<1>3. ASSUME row' = Derived(a) PROVE RowsUnmarked
  <2>3. CASE a \notin Att
    <3>1. CASE row' = row
      BY <1>5, <3>1
    <3>2. CASE row' = [row EXCEPT ![a].derived = TRUE]
      <4>1. row' \in [Att -> Row \cup {NoRow}] /\ \A b \in Att : row'[b] = row[b]
        BY <1>0, <2>3, <3>2
      <4> QED
        BY <4>1 DEF RowsUnmarked, Exists
    <3> QED
      BY <1>3, <3>1, <3>2 DEF Derived
  <2>1. CASE a \in Att /\ Exists(a)
    <3>1. row[a] \in Row /\ row' = [row EXCEPT ![a].derived = TRUE]
      BY <1>0, <1>3, <2>1 DEF Exists, Derived
    <3>2. [row[a] EXCEPT !.derived = TRUE] \in Row /\ [row[a] EXCEPT !.derived = TRUE].deleted = row[a].deleted
      BY <3>1 DEF Row
    <3> QED
      BY <1>0, <1>1, <3>1, <3>2 DEF RowsUnmarked, Exists
  <2>2. CASE ~Exists(a)
    BY <1>3, <1>5, <2>2 DEF Derived
  <2> QED
    BY <2>1, <2>2, <2>3
<1>4. ASSUME NEW from \in Ticketed, a \in Att,
             row' = [row EXCEPT ![a] = [status |-> "pending", from |-> from, deleted |-> FALSE, derived |-> FALSE]]
      PROVE  RowsUnmarked
  <2>1. [status |-> "pending", from |-> from, deleted |-> FALSE, derived |-> FALSE] \in Row
    BY <1>4 DEF Row, AttachmentStatus
  <2> QED
    BY <1>0, <1>1, <1>4, <2>1 DEF RowsUnmarked, Exists, NoRow
<1> QED
  BY <1>2, <1>3, <1>4, <1>5

(* What a step does to the holders of a row marked deleted.                *)
ReleasedStep == \A a \in Att : row[a].deleted => Holders(a)' \subseteq Holders(a)

(* A step that takes nothing for a holder, and marks no row deleted, keeps *)
(* every claim right.                                                      *)
LEMMA QuietStep ==
    ASSUME IInv, RowsUnmarked, UNCHANGED <<pivot, hold, lock>>
    PROVE  IInv' /\ ReleasedStep
<1>0. \A a \in Att : Holders(a)' = Holders(a)
  BY DEF Holders
<1>1. ClaimTypes'
  BY DEF IInv, ClaimTypes, RowsUnmarked
<1>2. \A h \in Holder : ClaimOK(h)'
  BY <1>0 DEF IInv, ClaimTypes, Hold, ClaimOK, Claiming, RowsUnmarked
<1>3. HeldExist'
  BY DEF IInv, HeldExist, HeldBy, RowsUnmarked
<1>4. NeverShared' /\ ReleasedStep
  BY <1>0 DEF IInv, NeverShared, ReleasedStep
<1> QED
  BY <1>1, <1>2, <1>3, <1>4 DEF IInv

(* The sweeps remove no row that a claim has locked.                       *)
LEMMA RemoveStep ==
    ASSUME IInv, NEW a \in Att, Remove(a), Unlocked({a}), UNCHANGED <<hold, lock>>
    PROVE  IInv' /\ ReleasedStep
<1>0. /\ ClaimTypes /\ Free \notin Holder
      /\ row' = [row EXCEPT ![a] = NoRow] /\ pivot' = {p \in pivot : p[2] # a}
      /\ lock[a] = Free
  BY UploadsAssumption DEF IInv, Remove, Unlocked
<1>1. ClaimTypes'
  BY <1>0 DEF ClaimTypes
<1>2. Holders(a)' = {} /\ \A b \in Att : b # a => Holders(b)' = Holders(b)
  BY <1>0 DEF Holders
<1>3. ASSUME NEW h \in Holder PROVE ClaimOK(h)'
  <2>1. ClaimOK(h) /\ hold[h].want \subseteq Att
    BY <1>0 DEF IInv, ClaimTypes, Hold
  <2>2. a \notin hold[h].want
    BY <1>0, <2>1 DEF ClaimOK
  <2>3. \A b \in hold[h].want : row'[b] = row[b] /\ (<<h, b>> \in pivot => <<h, b>> \in pivot')
    BY <1>0, <2>1, <2>2 DEF ClaimTypes
  <2> QED
    BY <1>2, <2>1, <2>2, <2>3 DEF ClaimOK, Claiming, Exists
<1>4. HeldExist'
  BY <1>0 DEF IInv, HeldExist, HeldBy, Exists, ClaimTypes
<1>5. NeverShared' /\ ReleasedStep
  BY <1>2 DEF IInv, NeverShared, ReleasedStep
<1> QED
  BY <1>1, <1>3, <1>4, <1>5 DEF IInv

(* A claim looks at rows nobody has locked, and locks them.                *)
LEMMA ClaimStep ==
    ASSUME IInv, NEW h \in Holder, NEW S \in SUBSET Att, Claim(h, S)
    PROVE  IInv' /\ ReleasedStep
<1>0. /\ ClaimTypes /\ Free \notin Holder
      /\ UNCHANGED <<row, pivot>>
      /\ hold' = [hold EXCEPT ![h] = [@ EXCEPT !.want = S, !.phase = IF hold[h].phase = "none" THEN "creating" ELSE "editing"]]
      /\ lock' = [a \in Att |-> IF a \in S THEN h ELSE lock[a]]
  BY UploadsAssumption DEF IInv, Claim, store
<1>1. /\ hold'[h].want = S /\ hold'[h].phase \in {"creating", "editing"} /\ hold'[h] \in Hold
      /\ \A g \in Holder : g # h => hold'[g] = hold[g]
  BY <1>0 DEF ClaimTypes, Hold, Phase
<1>2. ClaimTypes'
  <2>1. hold' \in [Holder -> Hold]
    BY <1>0, <1>1 DEF ClaimTypes
  <2> QED
    BY <1>0, <2>1 DEF ClaimTypes
<1>3. \A a \in Att : Holders(a)' = Holders(a)
  BY <1>0 DEF Holders
<1>4. ASSUME NEW g \in Holder PROVE ClaimOK(g)'
  <2>1. CASE g = h
    <3>1. \A a \in S : Exists(a) /\ ~row[a].deleted /\ (<<h, a>> \in pivot \/ MayClaim(h, a))
      BY DEF Claim, MayClaim, Exists, NoRow, Claimable, IInv, HeldExist, HeldBy
    <3>2. \A a \in S : MayClaim(h, a) => Holders(a) \cap Internal = {} /\ (h \in PublicMessage => Holders(a) = {})
      BY DEF MayClaim
    <3> QED
      BY <1>0, <1>1, <1>3, <2>1, <3>1, <3>2 DEF ClaimOK, Claiming, Exists
  <2>2. CASE g # h
    <3>1. ClaimOK(g) /\ hold'[g] = hold[g] /\ hold[g].want \subseteq Att
      BY <1>0, <1>1, <2>2 DEF IInv, ClaimTypes, Hold
    <3>2. \A a \in hold[g].want : a \notin S
      BY <1>0, <3>1 DEF Claim, Unlocked, ClaimOK
    <3> QED
      BY <1>0, <1>3, <3>1, <3>2 DEF ClaimOK, Claiming, Exists
  <2> QED
    BY <2>1, <2>2
<1>5. NeverShared' /\ HeldExist' /\ ReleasedStep
  BY <1>0, <1>3 DEF IInv, NeverShared, HeldExist, HeldBy, Exists, ReleasedStep
<1> QED
  BY <1>2, <1>4, <1>5 DEF IInv

(* A claim that commits gives its rows to nobody but its holder.           *)
LEMMA CommitStep ==
    ASSUME IInv, NEW h \in Holder, Commit(h)
    PROVE  IInv' /\ ReleasedStep
<1> DEFINE S == hold[h].want
           gone == HeldBy(h) \ S
<1>0. /\ ClaimTypes /\ Free \notin Holder /\ ClaimOK(h) /\ S \subseteq Att
      /\ pivot' = {p \in pivot : p[1] # h} \cup ({h} \X S)
      /\ hold' = [hold EXCEPT ![h] = [phase |-> "live", want |-> {}, given |-> S]]
      /\ lock' = [a \in Att |-> IF lock[a] = h THEN Free ELSE lock[a]]
      /\ row' = [a \in Att |-> IF a \in gone THEN [row[a] EXCEPT !.deleted = TRUE] ELSE row[a]]
      /\ Unlocked(gone)
  BY UploadsAssumption DEF IInv, Commit, Released, ClaimTypes, Hold
<1>1. /\ hold' \in [Holder -> Hold] /\ hold'[h].want = {} /\ hold'[h].phase = "live"
      /\ \A g \in Holder : g # h => hold'[g] = hold[g]
  BY <1>0 DEF ClaimTypes, Hold, Phase
<1>2. ClaimTypes'
  <2>1. pivot' \subseteq Holder \X Att
    BY <1>0 DEF ClaimTypes
  <2>2. row' \in [Att -> Row \cup {NoRow}]
    <3>1. \A a \in gone : row[a] \in Row
      BY <1>0 DEF IInv, HeldExist, HeldBy, Exists, ClaimTypes
    <3>2. \A a \in gone : [row[a] EXCEPT !.deleted = TRUE] \in Row
      BY <3>1 DEF Row
    <3> QED
      BY <1>0, <3>2 DEF ClaimTypes
  <2>3. lock' \in [Att -> Holder \cup {Free}]
    BY <1>0 DEF ClaimTypes
  <2> QED
    BY <1>0, <1>1, <2>1, <2>2, <2>3 DEF ClaimTypes
<1>8. \A a \in Att : Exists(a) => Exists(a)'
  <2>1. NoRow \notin Row
    BY DEF NoRow, Row, AttachmentStatus
  <2>2. \A r \in Row : [r EXCEPT !.deleted = TRUE] \in Row
    BY DEF Row
  <2> QED
    BY <1>0, <2>1, <2>2 DEF Exists, ClaimTypes
<1>9. HeldExist'
  BY <1>0, <1>8 DEF IInv, HeldExist, HeldBy, ClaimOK
<1>3. /\ \A a \in S : Holders(a)' = Holders(a) \cup {h}
      /\ \A a \in Att \ S : Holders(a)' = Holders(a) \ {h}
  BY <1>0 DEF Holders
<1>4. ASSUME NEW g \in Holder, g # h PROVE ClaimOK(g)'
  <2>1. ClaimOK(g) /\ hold'[g] = hold[g] /\ hold[g].want \subseteq Att
    BY <1>0, <1>1, <1>4 DEF IInv, ClaimTypes, Hold
  <2>2. ASSUME NEW a \in hold[g].want
        PROVE  /\ lock'[a] = g /\ Exists(a)' /\ ~row'[a].deleted
               /\ <<g, a>> \in pivot' \/ (Holders(a)' \cap Internal = {} /\ (g \in PublicMessage => Holders(a)' = {}))
    <3>1. lock[a] = g /\ a \in Att /\ Exists(a) /\ ~row[a].deleted
      BY <2>1, <2>2 DEF ClaimOK
    <3>2. a \notin S /\ a \notin gone
      BY <1>0, <1>4, <3>1 DEF ClaimOK, Unlocked
    <3>3. <<g, a>> \in pivot => <<g, a>> \in pivot'
      BY <1>0, <1>4
    <3> QED
      BY <1>0, <1>3, <1>4, <1>8, <2>1, <2>2, <3>1, <3>2, <3>3 DEF ClaimOK
  <2> QED
    BY <2>1, <2>2 DEF ClaimOK, Claiming
<1>5. ClaimOK(h)'
  BY <1>1 DEF ClaimOK
<1>6. NeverShared'
  <2> SUFFICES ASSUME NEW a \in Att, NEW f \in Holders(a)', NEW g \in Holders(a)', f # g
               PROVE  ~(f \in Internal /\ g \in Internal) /\ ~(f \in PublicMessage /\ g \in PublicMessage)
    BY DEF NeverShared
  <2>1. CASE f \in Holders(a) /\ g \in Holders(a)
    BY <2>1 DEF IInv, NeverShared
  <2>2. CASE ~(f \in Holders(a) /\ g \in Holders(a))
    <3>1. a \in S /\ <<h, a>> \notin pivot /\ h \in {f, g} /\ {f, g} \subseteq Holders(a) \cup {h}
      BY <1>3, <2>2 DEF Holders
    <3>2. Holders(a) \cap Internal = {} /\ (h \in PublicMessage => Holders(a) = {})
      BY <1>0, <3>1 DEF ClaimOK
    <3>3. \/ f = h /\ g \in Holders(a)
          \/ g = h /\ f \in Holders(a)
      BY <3>1
    <3>4. Internal \cap PublicMessage = {}
      BY UploadsAssumption
    <3> QED
      BY <3>2, <3>3, <3>4
  <2> QED
    BY <2>1, <2>2
<1>7. ReleasedStep
  BY <1>0, <1>3 DEF ReleasedStep, ClaimOK
<1> QED
  BY <1>2, <1>4, <1>5, <1>6, <1>7, <1>9 DEF IInv

(* A claim that rolls back, or a holder that lets go, takes nothing.       *)
LEMMA LetGoStep ==
    ASSUME IInv, NEW h \in Holder, NEW S \in SUBSET Att,
           row' = [a \in Att |-> IF a \in S THEN [row[a] EXCEPT !.deleted = TRUE] ELSE row[a]],
           S = {} \/ (S = HeldBy(h) /\ Unlocked(S)),
           pivot' = pivot \/ (~Claiming(h) /\ pivot' = {p \in pivot : p[1] # h}),
           hold' \in [Holder -> Hold], hold'[h].want = {}, \A g \in Holder : g # h => hold'[g] = hold[g],
           lock' = Released(h) \/ (~Claiming(h) /\ lock' = lock)
    PROVE  IInv' /\ ReleasedStep
<1>0. ClaimTypes /\ Free \notin Holder
  BY UploadsAssumption DEF IInv
<1>1. ClaimTypes'
  <2>1. lock' \in [Att -> Holder \cup {Free}] /\ pivot' \subseteq Holder \X Att
    BY <1>0 DEF ClaimTypes, Released
  <2>2. row' \in [Att -> Row \cup {NoRow}]
    <3>1. \A a \in S : row[a] \in Row
      BY <1>0 DEF IInv, HeldExist, HeldBy, Exists, ClaimTypes
    <3>2. \A a \in S : [row[a] EXCEPT !.deleted = TRUE] \in Row
      BY <3>1 DEF Row
    <3> QED
      BY <1>0, <3>2 DEF ClaimTypes
  <2> QED
    BY <1>0, <2>1, <2>2 DEF ClaimTypes
<1>6. \A a \in Att : Exists(a) => Exists(a)'
  <2>1. NoRow \notin Row
    BY DEF NoRow, Row, AttachmentStatus
  <2>2. \A r \in Row : [r EXCEPT !.deleted = TRUE] \in Row
    BY DEF Row
  <2> QED
    BY <1>0, <2>1, <2>2 DEF Exists, ClaimTypes
<1>2. /\ \A a \in Att : Holders(a)' \subseteq Holders(a) /\ Holders(a) \subseteq Holders(a)' \cup {h}
  BY <1>0 DEF Holders
<1>3. ASSUME NEW g \in Holder, g # h PROVE ClaimOK(g)'
  <2>1. ClaimOK(g) /\ hold'[g] = hold[g] /\ hold[g].want \subseteq Att
    BY <1>0, <1>3 DEF IInv, ClaimTypes, Hold
  <2>2. ASSUME NEW a \in hold[g].want
        PROVE  /\ lock'[a] = g /\ Exists(a)' /\ ~row'[a].deleted
               /\ <<g, a>> \in pivot' \/ (Holders(a)' \cap Internal = {} /\ (g \in PublicMessage => Holders(a)' = {}))
    <3>1. lock[a] = g /\ a \in Att /\ Exists(a) /\ ~row[a].deleted
      BY <2>1, <2>2 DEF ClaimOK
    <3>2. a \notin S /\ lock'[a] = g
      BY <1>0, <1>3, <3>1 DEF Unlocked, Released
    <3>3. <<g, a>> \in pivot => <<g, a>> \in pivot'
      BY <1>3
    <3> QED
      BY <1>2, <1>6, <2>1, <2>2, <3>1, <3>2, <3>3 DEF ClaimOK
  <2> QED
    BY <2>1, <2>2 DEF ClaimOK, Claiming
<1>4. ClaimOK(h)'
  BY DEF ClaimOK
<1>5. NeverShared' /\ HeldExist' /\ ReleasedStep
  BY <1>2, <1>6 DEF IInv, NeverShared, HeldExist, HeldBy, ReleasedStep
<1> QED
  BY <1>1, <1>3, <1>4, <1>5 DEF IInv

(* The steps by what they do to rows and claims.                           *)
LEMMA NextIInv == ASSUME IInv, [Next]_vars PROVE IInv' /\ ReleasedStep
<1>0. ClaimTypes /\ UNCHANGED <<pivot, hold, lock>> /\ UNCHANGED row => IInv' /\ ReleasedStep
  BY QuietStep DEF RowsUnmarked, ClaimTypes, Exists
<1>1. ASSUME NEW a \in Att, NEW from \in Ticketed, issue(a, from) PROVE IInv' /\ ReleasedStep
  <2>1. row' = [row EXCEPT ![a] = [status |-> "pending", from |-> from, deleted |-> FALSE, derived |-> FALSE]]
    BY <1>1 DEF issue
  <2>2. RowsUnmarked
    BY <2>1, RowUpdates DEF IInv
  <2> QED
    BY <1>1, <2>2, QuietStep DEF issue, claims
<1>2. ASSUME NEW a \in Att, (\E bytes \in {"upload", "wrong"} : binary(a, bytes)) \/ Elapse(a) \/ replay(a)
      PROVE IInv' /\ ReleasedStep
  BY <1>0, <1>2 DEF IInv, binary, Elapse, replay, claims, store
<1>3. ASSUME NEW r \in Request, (\E a \in Att : finish(r, a)) \/ copy(r) \/ copyFails(r) \/ answer(r) \/ abandon(r)
      PROVE IInv' /\ ReleasedStep
  BY <1>0, <1>3 DEF IInv, finish, copy, copyFails, answer, abandon, claims, store
<1>4. ASSUME NEW r \in Request, save(r) PROVE IInv' /\ ReleasedStep
  BY <1>4, RowUpdates, QuietStep DEF IInv, save, claims, AttachmentStatus
<1>5. ASSUME NEW w \in Worker, NEW a \in Att, process(w, a) PROVE IInv' /\ ReleasedStep
  BY <1>0, <1>5, RowUpdates, QuietStep DEF IInv, process, claims, AttachmentStatus
<1>6. ASSUME NEW w \in Worker, End(w) \/ storeThumbs(w) \/ die(w) PROVE IInv' /\ ReleasedStep
  <2>1. CASE End(w)
    <3>1. PICK status \in {"ready", "failed"} : row' = Saved(work[w].att, status) /\ UNCHANGED <<pivot, hold, lock>>
      BY <2>1 DEF End, ready, fail, quarantineInfected, Processed, claims
    <3> QED
      BY <3>1, RowUpdates, QuietStep DEF IInv, AttachmentStatus
  <2>2. CASE storeThumbs(w)
    BY <2>2, RowUpdates, QuietStep DEF IInv, storeThumbs, claims
  <2>3. CASE die(w)
    BY <1>0, <2>3 DEF IInv, die, claims, store
  <2> QED
    BY <1>6, <2>1, <2>2, <2>3
<1>7. ASSUME NEW a \in Att, PurgeAttachmentFiles(a) PROVE IInv' /\ ReleasedStep
  BY <1>7, RowUpdates, QuietStep DEF IInv, PurgeAttachmentFiles, claims, AttachmentStatus
<1>8. ASSUME purgeExpiredPending \/ purgeUnreferencedPublicChat \/ (\E a \in Att : startDelete(a))
      PROVE IInv' /\ ReleasedStep
  BY <1>0, <1>8 DEF IInv, purgeExpiredPending, purgeUnreferencedPublicChat, startDelete, claims, store
<1>9. ASSUME NEW a \in Att, forceDelete(a) \/ finishDelete(a) PROVE IInv' /\ ReleasedStep
  BY <1>9, RemoveStep DEF forceDelete, finishDelete
<1>10. ASSUME NEW h \in Holder, NEW S \in SUBSET Att, Claim(h, S) PROVE IInv' /\ ReleasedStep
  BY <1>10, ClaimStep
<1>11. ASSUME NEW h \in Holder, Commit(h) PROVE IInv' /\ ReleasedStep
  BY <1>11, CommitStep
<1>12. ASSUME NEW h \in Holder, Rollback(h) PROVE IInv' /\ ReleasedStep
  <2>1. /\ hold' \in [Holder -> Hold] /\ hold'[h].want = {}
        /\ \A g \in Holder : g # h => hold'[g] = hold[g]
    BY <1>12 DEF Rollback, IInv, ClaimTypes, Hold, Phase
  <2>2. row' = [a \in Att |-> IF a \in {} THEN [row[a] EXCEPT !.deleted = TRUE] ELSE row[a]]
    BY <1>12 DEF Rollback, IInv, ClaimTypes, store
  <2>3. pivot' = pivot /\ lock' = Released(h)
    BY <1>12 DEF Rollback
  <2> QED
    BY <2>1, <2>2, <2>3, LetGoStep
<1>13. ASSUME NEW h \in Holder, (h \in Message /\ deleteMessage(h)) \/ (h \in Note /\ deleteNote(h))
       PROVE IInv' /\ ReleasedStep
  <2>0. ~Claiming(h) /\ ClaimOK(h) /\ ClaimTypes
    BY <1>13 DEF deleteMessage, deleteNote, Claiming, IInv
  <2>1. /\ hold' \in [Holder -> Hold] /\ hold'[h].want = {}
        /\ \A g \in Holder : g # h => hold'[g] = hold[g]
    BY <1>13, <2>0 DEF deleteMessage, deleteNote, ClaimTypes, ClaimOK, Hold, Phase
  <2>2. pivot' = {p \in pivot : p[1] # h} /\ lock' = lock
    BY <1>13 DEF deleteMessage, deleteNote
  <2>3. CASE deleteMessage(h)
    <3>1. row' = [a \in Att |-> IF a \in {} THEN [row[a] EXCEPT !.deleted = TRUE] ELSE row[a]]
      BY <2>0, <2>3 DEF deleteMessage, ClaimTypes, store
    <3> QED
      BY <2>0, <2>1, <2>2, <3>1, LetGoStep
  <2>4. CASE deleteNote(h)
    <3>1. /\ row' = [a \in Att |-> IF a \in HeldBy(h) THEN [row[a] EXCEPT !.deleted = TRUE] ELSE row[a]]
          /\ HeldBy(h) \in SUBSET Att /\ Unlocked(HeldBy(h))
      BY <2>4 DEF deleteNote, HeldBy
    <3> QED
      BY <2>0, <2>1, <2>2, <3>1, LetGoStep
  <2> QED
    BY <1>13, <2>3, <2>4
<1>14. CASE UNCHANGED vars
  BY <1>0, <1>14 DEF IInv, vars, claims, store
<1>15. CASE Uploading
  BY <1>1, <1>2, <1>3, <1>15 DEF Uploading
<1>16. CASE Completion \/ Processing \/ Sweeping
  BY <1>3, <1>4, <1>5, <1>6, <1>8, <1>9, <1>16 DEF Completion, Step, Processing, Sweeping
<1>17. CASE Holding
  <2>1. CASE \E h \in Holder : Commit(h) \/ Rollback(h) \/ (\E S \in SUBSET Att : Claim(h, S))
    BY <1>10, <1>11, <1>12, <2>1
  <2>3. ASSUME NEW h \in Message \cup Note, deleteRollsBack(h) PROVE IInv' /\ ReleasedStep
    BY <1>0, <2>3 DEF IInv, deleteRollsBack, claims, store
  <2>2. CASE (\E m \in Message : deleteMessage(m)) \/ (\E n \in Note : deleteNote(n))
    <3>1. Message \subseteq Holder /\ Note \subseteq Holder
      BY DEF Holder
    <3>2. ASSUME NEW m \in Message, deleteMessage(m) PROVE IInv' /\ ReleasedStep
      BY <1>13, <3>1, <3>2
    <3>3. ASSUME NEW n \in Note, deleteNote(n) PROVE IInv' /\ ReleasedStep
      BY <1>13, <3>1, <3>3
    <3> QED
      BY <2>2, <3>2, <3>3
  <2> QED
    BY <1>17, <2>1, <2>2, <2>3 DEF Holding
<1> QED
  BY <1>7, <1>8, <1>14, <1>15, <1>16, <1>17 DEF Next

-------------------------------------------------------------------------------

(* The inductive invariant holds in every behaviour.                       *)
THEOREM Invariance == Spec => []IInv
<1>1. IInv /\ [Next]_vars => IInv'
  BY NextIInv
<1> QED
  BY InitIInv, <1>1, PTL DEF Spec

(* No file is given to two messages, notes or tickets, nor to two public   *)
(* messages, however many claims of it cross.                              *)
THEOREM ClaimsAreExclusive == Spec => []NeverShared
<1>1. IInv => NeverShared
  BY DEF IInv
<1> QED
  BY Invariance, <1>1, PTL

(* What a note or a ticket released is never given to anybody.             *)
THEOREM ReleasedStays == Spec => ReleasedForGood
<1>1. IInv /\ [Next]_vars =>
        [\A a \in Att : row[a].deleted => Holders(a)' \subseteq Holders(a)]_vars
  BY NextIInv DEF ReleasedStep
<1> QED
  BY Invariance, <1>1, PTL DEF Spec, ReleasedForGood

(* A claimed row is in the table: no sweep and no job removes the row of a *)
(* file while a holder has it or a claim has it locked.                    *)
THEOREM HeldRowsExist == Spec => []HeldExist
<1>1. IInv => HeldExist
  BY DEF IInv
<1> QED
  BY Invariance, <1>1, PTL

-------------------------------------------------------------------------------

(* Files *)

(* No ticket was issued; or its upload is over: complete()d, or removed.   *)
Fresh(a) == ~Exists(a) /\ age[a] = 0
Past(a)  == ~Fresh(a) /\ row[a].status # "pending"

(* What is under way names an attachment.                                  *)
NamesOK ==
    /\ \A r \in Request : IF request[r].pc = "idle" THEN request[r] = Idle ELSE request[r].att \in Att
    /\ \A w \in Worker : IF work[w].pc = "idle" THEN work[w] = Idle ELSE work[w].att \in Att
    /\ sweep.deleting # Free => sweep.pc = "orphans" /\ sweep.deleting \in sweep.todo

(* Only what was uploaded is processed, claimed, purged, or collected as   *)
(* an orphan; only what has expired is swept.                              *)
PastOK ==
    /\ \A r \in Request : request[r].pc = "saved" => Past(request[r].att)
    /\ \A w \in Worker : work[w].pc # "idle" => Past(work[w].att)
    /\ \A a \in Att : purges[a] > 0 => Past(a)
    /\ \A h \in Holder : \A a \in HeldBy(h) \cup hold[h].want : Past(a)
    /\ sweep.pc = "orphans" => \A a \in sweep.todo : Past(a)
    /\ \A a \in sweep.todo : age[a] > 0

(* Nothing is stored under a ticket that was not issued; and while it is   *)
(* pending, what was copied is still there to be copied again.             *)
ObjectsOK ==
    /\ \A r \in Request : request[r].pc # "idle" => ~Fresh(request[r].att)
    /\ \A a \in Att : Fresh(a) => \A key : ~Stored(a, key)
    /\ \A a \in Att : Stored(a, "wrong") => ~Stored(a, "upload")
    /\ \A a \in Att : row[a].status = "pending" /\ Stored(a, "original") => Stored(a, "upload")

(* Bytes that are not what the ticket announced are never those of a       *)
(* completed upload; one copied and not yet saved is there to be saved.    *)
Staging(a) ==
    /\ Stored(a, "wrong") => row[a].status = "pending"
    /\ row[a].status = "pending" =>
          \A r \in Request : request[r].pc = "copied" /\ request[r].att = a => Stored(a, "original")

Processes(w, a) == work[w].pc # "idle" /\ work[w].att = a

(* A file has one holder; a file let go of has none, and nobody queued the *)
(* purge of another.                                                       *)
Alone(a) == \A g, h \in Holders(a) : g = h
LetGo(a) ==
    /\ row[a].deleted => Holders(a) = {}
    /\ purges[a] > 0 /\ Exists(a) => row[a].deleted

(* What the sweeps are about to remove, nobody holds or has completed.     *)
Swept(a) ==
    /\ sweep.deleting = a => Holders(a) = {}
    /\ sweep.pc = "tickets" /\ a \in sweep.todo /\ Exists(a) => row[a].status = "pending"

(* A row not marked deleted keeps its object unless its one worker refuses *)
(* it.                                                                     *)
Whole(a) ==
    Exists(a) /\ ~row[a].deleted =>
       /\ row[a].status # "deleted"
       /\ row[a].status \in {"uploaded", "processing", "ready"} => Stored(a, "original")
       /\ \A w \in Worker : Processes(w, a) =>
             row[a].status = "processing" /\ \A v \in Worker : Processes(v, a) => v = w

(* What is live holds what it was given.                                   *)
Live(h) == hold[h].phase \in {"live", "editing"}
Given(a) == \A h \in Holder : Live(h) /\ a \in hold[h].given => <<h, a>> \in pivot

FileOK(a) == Alone(a) /\ LetGo(a) /\ Swept(a) /\ Staging(a) /\ Whole(a) /\ Given(a)

FilesInv ==
    /\ IInv /\ TypeOK
    /\ NamesOK /\ PastOK /\ ObjectsOK
    /\ \A a \in Att \ exposed : FileOK(a)

(* What a step does to rows, apart from their thumbnails.                  *)
Keep(a) == /\ Exists(a)' <=> Exists(a)
           /\ row'[a].status = row[a].status /\ row'[a].deleted = row[a].deleted

Keeps == \A a \in Att : Keep(a)

(* A row that exists has a status; one that does not is not marked.        *)
LEMMA RowIs == ASSUME ClaimTypes, NEW a \in Att
               PROVE  /\ Exists(a) <=> row[a] \in Row
                      /\ ~Exists(a) => row[a].status = "none" /\ row[a].deleted = FALSE
                      /\ Exists(a) => row[a].status \in AttachmentStatus /\ row[a].deleted \in BOOLEAN
<1>1. NoRow \notin Row
  BY DEF NoRow, Row, AttachmentStatus
<1>2. NoRow.status = "none" /\ NoRow.deleted = FALSE
  BY DEF NoRow
<1> QED
  BY <1>1, <1>2 DEF ClaimTypes, Exists, Row

(* What an UPDATE of a status writes.                                      *)
LEMMA SavedIs ==
    ASSUME ClaimTypes, NEW a \in Att, NEW status \in AttachmentStatus, row' = Saved(a, status)
    PROVE  /\ \A b \in Att : (Exists(b)' <=> Exists(b)) /\ row'[b].deleted = row[b].deleted
           /\ \A b \in Att : b # a => row'[b] = row[b]
           /\ row'[a].status = IF Exists(a) THEN status ELSE "none"
<1>1. CASE Exists(a)
  <2>1. row' = [row EXCEPT ![a].status = status]
    BY <1>1 DEF Saved
  <2>2. row[a] \in Row /\ DOMAIN row = Att
    BY <1>1, RowIs DEF ClaimTypes
  <2>3. row'[a] = [row[a] EXCEPT !.status = status]
    BY <2>1, <2>2
  <2>4. [row[a] EXCEPT !.status = status] \in Row
    BY <2>2 DEF Row
  <2>5. row'[a].deleted = row[a].deleted /\ row'[a].status = status
    BY <2>2, <2>3 DEF Row
  <2>6. Exists(a)'
    BY <2>3, <2>4 DEF Exists, NoRow, Row, AttachmentStatus
  <2>7. \A b \in Att : b # a => row'[b] = row[b]
    BY <2>1, <2>2
  <2> QED
    BY <1>1, <2>5, <2>6, <2>7 DEF Exists
<1>2. CASE ~Exists(a)
  BY <1>2, RowIs DEF Saved, Exists
<1> QED
  BY <1>1, <1>2

(* What storeThumbs() writes.                                              *)
LEMMA DerivedIs ==
    ASSUME ClaimTypes, NEW a \in Att, row' = Derived(a)
    PROVE  Keeps
<1>1. CASE Exists(a)
  <2>1. row' = [row EXCEPT ![a].derived = TRUE]
    BY <1>1 DEF Derived
  <2>2. row[a] \in Row /\ DOMAIN row = Att
    BY <1>1, RowIs DEF ClaimTypes
  <2>3. row'[a] = [row[a] EXCEPT !.derived = TRUE]
    BY <2>1, <2>2
  <2>4. [row[a] EXCEPT !.derived = TRUE] \in Row
    BY <2>2 DEF Row
  <2>5. row'[a].deleted = row[a].deleted /\ row'[a].status = row[a].status
    BY <2>2, <2>3 DEF Row
  <2>6. Exists(a)'
    BY <2>3, <2>4 DEF Exists, NoRow, Row, AttachmentStatus
  <2>7. \A b \in Att : b # a => row'[b] = row[b]
    BY <2>1, <2>2
  <2> QED
    <3>1. Keep(a)
      BY <1>1, <2>5, <2>6 DEF Keep
    <3>2. \A b \in Att : b # a => Keep(b)
      BY <2>7 DEF Exists, Keep
    <3> QED
      BY <3>1, <3>2 DEF Keeps
<1>2. CASE ~Exists(a)
  BY <1>2 DEF Derived, Exists, Keep, Keeps
<1> QED
  BY <1>1, <1>2

(* What marking rows deleted writes.                                       *)
LEMMA MarkedIs ==
    ASSUME ClaimTypes, NEW S \in SUBSET Att, \A a \in S : Exists(a),
           row' = [a \in Att |-> IF a \in S THEN [row[a] EXCEPT !.deleted = TRUE] ELSE row[a]]
    PROVE  /\ \A a \in Att : (Exists(a)' <=> Exists(a)) /\ row'[a].status = row[a].status
           /\ \A a \in Att : row'[a].deleted <=> a \in S \/ row[a].deleted
           /\ \A a \in Att \ S : row'[a] = row[a]
<1>1. ASSUME NEW a \in S
      PROVE  Exists(a)' /\ row'[a].status = row[a].status /\ row'[a].deleted
  <2>1. row[a] \in Row /\ row'[a] = [row[a] EXCEPT !.deleted = TRUE]
    BY RowIs
  <2>2. [row[a] EXCEPT !.deleted = TRUE] \in Row
    BY <2>1 DEF Row
  <2>3. Exists(a)'
    BY <2>1, <2>2 DEF Exists, NoRow, Row, AttachmentStatus
  <2> QED
    BY <2>1, <2>3 DEF Row
<1>2. \A a \in Att \ S : row'[a] = row[a]
  OBVIOUS
<1> QED
  BY <1>1, <1>2 DEF Exists

(* Types: an attachment is never Free.                                     *)
LEMMA Names == ASSUME TypeOK, NamesOK
    PROVE  /\ Free \notin Att
           /\ \A r \in Request : request[r] # Idle <=> request[r].pc # "idle"
           /\ \A w \in Worker : work[w] # Idle <=> work[w].pc # "idle"
           /\ Idle.pc = "idle" /\ Idle.att = Free
           /\ NoSweep.pc = "idle" /\ NoSweep.todo = {} /\ NoSweep.deleting = Free /\ NoSweep.derived = {}
  BY UploadsAssumption DEF NamesOK, Idle, NoSweep

OtherTypes ==
    /\ age \in [Att -> 0..2]
    /\ objects \subseteq Object
    /\ request \in [Request -> Completing]
    /\ jobs \in [Att -> Nat] /\ purges \in [Att -> Nat]
    /\ work \in [Worker -> Working]
    /\ sweep \in Sweep
    /\ acked \subseteq Att /\ exposed \subseteq Att

(* What queueing one job more for each of a set does.                      *)
LEMMA Counting == ASSUME NEW f \in [Att -> Nat], NEW S
                  PROVE  /\ Count(f, S) \in [Att -> Nat]
                         /\ \A a \in Att : IF a \in S THEN Count(f, S)[a] = f[a] + 1 ELSE Count(f, S)[a] = f[a]
  BY DEF Count

(* The sweep goes on while it has rows left, and is over then.             *)
LEMMA ProceedIs == ASSUME NEW s \in Sweep
                   PROVE  /\ Proceed(s) \in Sweep
                          /\ Proceed(s) = s \/ (Proceed(s) = NoSweep /\ s.todo = {})
  BY DEF Proceed, Sweep, NoSweep

(* At first nothing is stored, held or under way.                          *)
LEMMA TypeInit == Init => FilesInv
<1> SUFFICES ASSUME Init PROVE FilesInv
  OBVIOUS
<1>1. IInv
  BY InitIInv
<1>2. TypeOK /\ NamesOK
  BY <1>1 DEF Init, TypeOK, IInv, ClaimTypes, NamesOK, Completing, Working, Idle, Sweep, NoSweep
<1>3. PastOK /\ ObjectsOK
  BY DEF Init, PastOK, ObjectsOK, HeldBy, Stored, Idle, NoSweep
<1>4. \A a \in Att : FileOK(a)
  BY DEF Init, FileOK, Alone, LetGo, Swept, Staging, Stored, Whole, Given, Live, Holders, Exists, NoRow, NoSweep
<1> QED
  BY <1>1, <1>2, <1>3, <1>4 DEF FilesInv

(* Types are kept by every action.                                         *)
LEMMA TypeStep == ASSUME TypeOK, NamesOK, Next PROVE OtherTypes' /\ NamesOK'
<1>0. OtherTypes /\ (\A S : Count(jobs, S) \in [Att -> Nat] /\ Count(purges, S) \in [Att -> Nat])
  BY Counting DEF TypeOK, OtherTypes
<1>1. /\ Free \notin Att
      /\ \A r \in Request : request[r] # Idle <=> request[r].pc # "idle"
      /\ \A w \in Worker : work[w] # Idle <=> work[w].pc # "idle"
      /\ Idle.pc = "idle" /\ Idle.att = Free /\ Idle \in Completing /\ Idle \in Working
      /\ NoSweep.deleting = Free /\ NoSweep \in Sweep
  BY Names DEF Idle, Completing, Working, NoSweep, Sweep
<1>2. ASSUME NEW r \in Request, NEW v \in Completing, request' = [request EXCEPT ![r] = v],
             v = Idle \/ (v.pc # "idle" /\ v.att \in Att), UNCHANGED <<work, sweep>>
      PROVE  request' \in [Request -> Completing] /\ NamesOK'
  BY <1>0, <1>1, <1>2 DEF OtherTypes, NamesOK
<1>3. ASSUME NEW w \in Worker, NEW v \in Working, work' = [work EXCEPT ![w] = v],
             v = Idle \/ (v.pc # "idle" /\ v.att \in Att), UNCHANGED <<request, sweep>>
      PROVE  work' \in [Worker -> Working] /\ NamesOK'
  BY <1>0, <1>1, <1>3 DEF OtherTypes, NamesOK
<1>4. UNCHANGED <<request, work, sweep>> => NamesOK'
  BY DEF NamesOK
<1>5. ASSUME NEW s \in Sweep, sweep' = Proceed(s), s.deleting = Free, UNCHANGED <<request, work>>
      PROVE  sweep' \in Sweep /\ NamesOK'
  BY <1>1, <1>5, ProceedIs DEF NamesOK
<1>6. CASE Uploading
  <2>1. ASSUME NEW a \in Att, Elapse(a) PROVE OtherTypes' /\ NamesOK'
    <3>1. age' \in [Att -> 0..2]
      BY <1>0, <2>1 DEF Elapse, OtherTypes
    <3> QED
      BY <1>0, <1>4, <2>1, <3>1 DEF Elapse, OtherTypes, queues, history
  <2>2. ASSUME NEW a \in Att, replay(a) PROVE OtherTypes' /\ NamesOK'
    BY <1>0, <1>4, <2>2 DEF replay, OtherTypes, queues, store
  <2>3. ASSUME NEW a \in Att, NEW from, issue(a, from) PROVE OtherTypes' /\ NamesOK'
    BY <1>0, <1>4, <2>3 DEF issue, OtherTypes, queues, history
  <2>4. ASSUME NEW a \in Att, NEW bytes \in {"upload", "wrong"}, binary(a, bytes) PROVE OtherTypes' /\ NamesOK'
    BY <1>0, <1>4, <2>4 DEF binary, OtherTypes, queues, history, Object
  <2>5. ASSUME NEW a \in Att, NEW r \in Request, finish(r, a) PROVE OtherTypes' /\ NamesOK'
    <3> DEFINE v == [pc |-> "checked", att |-> a]
    <3>1. v \in Completing /\ v.pc # "idle" /\ v.att \in Att
      BY DEF Completing
    <3>2. request' = [request EXCEPT ![r] = v]
      BY <2>5 DEF finish
    <3> HIDE DEF v
    <3>3. request' \in [Request -> Completing] /\ NamesOK'
      BY <1>2, <2>5, <3>1, <3>2 DEF finish, queues
    <3> QED
      BY <1>0, <2>5, <3>3 DEF finish, OtherTypes, queues, history, store
  <2> QED
    BY <1>6, <2>1, <2>2, <2>3, <2>4, <2>5 DEF Uploading
<1>7. CASE Completion
  <2> SUFFICES ASSUME NEW r \in Request, Step(r) \/ abandon(r) PROVE OtherTypes' /\ NamesOK'
    BY <1>7 DEF Completion
  <2> DEFINE a == request[r].att
  <2>1. request[r].pc # "idle"
    BY <1>1 DEF Step, copy, copyFails, save, answer, abandon
  <2>2. a \in Att /\ request[r] \in Completing
    BY <1>0, <2>1 DEF NamesOK, OtherTypes
  <2>3. \A key \in {"upload", "wrong", "original", "thumb"} : <<a, key>> \in Object
    BY <2>2 DEF Object
  <2>4. PICK v : request' = [request EXCEPT ![r] = v] /\ v \in Completing /\ (v = Idle \/ (v.pc # "idle" /\ v.att \in Att))
    <3>1. CASE abandon(r) \/ answer(r)
      BY <1>1, <3>1 DEF abandon, answer
    <3>2. CASE copy(r) \/ copyFails(r) \/ save(r)
      <4>1. /\ [request[r] EXCEPT !.pc = "copied"] \in Completing /\ [request[r] EXCEPT !.pc = "copied"].pc = "copied"
            /\ [request[r] EXCEPT !.pc = "saved"] \in Completing /\ [request[r] EXCEPT !.pc = "saved"].pc = "saved"
            /\ [request[r] EXCEPT !.pc = "copied"].att = a /\ [request[r] EXCEPT !.pc = "saved"].att = a
        BY <2>2 DEF Completing
      <4>2. \/ request' = [request EXCEPT ![r] = [request[r] EXCEPT !.pc = "copied"]]
            \/ request' = [request EXCEPT ![r] = [request[r] EXCEPT !.pc = "saved"]]
            \/ request' = [request EXCEPT ![r] = Idle]
        BY <3>2 DEF copy, copyFails, save
      <4> QED
        BY <1>1, <2>2, <4>1, <4>2
    <3> QED
      BY <3>1, <3>2 DEF Step
  <2>5. UNCHANGED <<work, sweep, age, purges>>
    BY DEF Step, copy, copyFails, save, answer, abandon, queues, store
  <2>6. request' \in [Request -> Completing] /\ NamesOK'
    BY <1>2, <2>4, <2>5
  <2>7. objects' \subseteq Object
    BY <1>0, <2>3 DEF Step, copy, copyFails, save, answer, abandon, store, OtherTypes
  <2>8. jobs' \in [Att -> Nat]
    BY <1>0 DEF Step, copy, copyFails, save, answer, abandon, queues, OtherTypes
  <2>9. acked' \subseteq Att /\ exposed' \subseteq Att
    BY <1>0, <2>2 DEF Step, copy, copyFails, save, answer, abandon, history, OtherTypes
  <2> QED
    BY <1>0, <2>5, <2>6, <2>7, <2>8, <2>9 DEF OtherTypes
<1>8. CASE Processing
  <2>1. ASSUME NEW w \in Worker, NEW a \in Att, process(w, a) PROVE OtherTypes' /\ NamesOK'
    <3> DEFINE v == [pc |-> "read", att |-> a]
    <3>1. v \in Working /\ v.pc # "idle" /\ v.att \in Att
      BY DEF Working
    <3>2. work' = [work EXCEPT ![w] = v] \/ work' = work
      BY <2>1 DEF process
    <3> HIDE DEF v
    <3>3. work' \in [Worker -> Working] /\ NamesOK'
      BY <1>0, <1>3, <1>4, <2>1, <3>1, <3>2 DEF process, OtherTypes
    <3>4. jobs' \in [Att -> Nat]
      BY <1>0, <2>1 DEF process, OtherTypes
    <3> QED
      BY <1>0, <2>1, <3>3, <3>4 DEF process, OtherTypes, history
  <2>2. ASSUME NEW w \in Worker, End(w) PROVE OtherTypes' /\ NamesOK'
    <3>1. work' = [work EXCEPT ![w] = Idle] /\ UNCHANGED <<request, sweep>>
      BY <2>2 DEF End, ready, fail, quarantineInfected, Processed
    <3>2. work' \in [Worker -> Working] /\ NamesOK'
      BY <1>1, <1>3, <3>1
    <3>3. objects' \subseteq Object
      BY <1>0, <2>2 DEF End, ready, fail, quarantineInfected, Processed, OtherTypes
    <3> QED
      BY <1>0, <2>2, <3>2, <3>3 DEF End, ready, fail, quarantineInfected, Processed, OtherTypes, history
  <2>3. ASSUME NEW w \in Worker, storeThumbs(w) PROVE OtherTypes' /\ NamesOK'
    <3> DEFINE v == [work[w] EXCEPT !.pc = "rendered"]
    <3>1. work[w].att \in Att /\ work[w] \in Working
      BY <1>0, <2>3 DEF storeThumbs, NamesOK, OtherTypes
    <3>2. v \in Working /\ v.pc # "idle" /\ v.att \in Att
      BY <3>1 DEF Working
    <3>3. work' = [work EXCEPT ![w] = v]
      BY <2>3 DEF storeThumbs
    <3> HIDE DEF v
    <3>4. work' \in [Worker -> Working] /\ NamesOK'
      BY <1>3, <2>3, <3>2, <3>3 DEF storeThumbs
    <3>5. objects' \subseteq Object
      BY <1>0, <2>3, <3>1 DEF storeThumbs, OtherTypes, Object
    <3> QED
      BY <1>0, <2>3, <3>4, <3>5 DEF storeThumbs, OtherTypes, history
  <2>4. ASSUME NEW w \in Worker, die(w) PROVE OtherTypes' /\ NamesOK'
    <3>1. work' \in [Worker -> Working] /\ NamesOK'
      BY <1>1, <1>3, <2>4 DEF die
    <3>2. jobs' \in [Att -> Nat]
      BY <1>0, <2>4 DEF die
    <3> QED
      BY <1>0, <2>4, <3>1, <3>2 DEF die, OtherTypes, history, store
  <2> QED
    BY <1>8, <2>1, <2>2, <2>3, <2>4 DEF Processing
<1>9. CASE Holding
  <2>1. ASSUME NEW h \in Holder, (\E S \in SUBSET Att : Claim(h, S)) \/ Rollback(h) \/ Commit(h)
               \/ deleteMessage(h) \/ deleteRollsBack(h) \/ deleteNote(h)
        PROVE OtherTypes' /\ NamesOK'
    <3>1. UNCHANGED <<age, objects, request, jobs, work, sweep, acked>>
      BY <2>1 DEF Claim, Rollback, Commit, deleteMessage, deleteRollsBack, deleteNote, store, queues, history
    <3>2. purges' \in [Att -> Nat]
      <4>1. purges' = purges \/ \E S : purges' = Count(purges, S)
        BY <2>1 DEF Claim, Rollback, Commit, deleteMessage, deleteRollsBack, deleteNote, queues
      <4> QED
        BY <1>0, <4>1 DEF OtherTypes
    <3>3. hold[h].want \subseteq Att /\ HeldBy(h) \subseteq Att
      BY <2>1 DEF TypeOK, Hold, HeldBy
    <3>4. exposed' \subseteq Att
      BY <1>0, <2>1, <3>3 DEF Claim, Rollback, Commit, deleteMessage, deleteRollsBack, deleteNote, history, OtherTypes
    <3> QED
      BY <1>0, <1>4, <3>1, <3>2, <3>4 DEF OtherTypes
  <2> QED
    BY <1>9, <2>1 DEF Holding, Holder
<1>10. ASSUME NEW a \in Att, PurgeAttachmentFiles(a) PROVE OtherTypes' /\ NamesOK'
  <2>1. purges' \in [Att -> Nat]
    <3>1. purges \in [Att -> Nat] /\ purges[a] > 0 /\ purges' = [purges EXCEPT ![a] = @ - 1]
      BY <1>0, <1>10 DEF PurgeAttachmentFiles, OtherTypes
    <3>2. purges[a] - 1 \in Nat
      BY <3>1
    <3> QED
      BY <3>1, <3>2
  <2>2. objects' \subseteq Object
    BY <1>0, <1>10 DEF PurgeAttachmentFiles, OtherTypes
  <2> QED
    BY <1>0, <1>4, <1>10, <2>1, <2>2 DEF PurgeAttachmentFiles, OtherTypes, history
<1>11. ASSUME sweep' \in Sweep, NamesOK', objects' \subseteq objects, UNCHANGED <<age, request, queues, history>>
       PROVE OtherTypes' /\ NamesOK'
  BY <1>0, <1>11 DEF OtherTypes, queues, history
<1>12. CASE purgeExpiredPending
  <2>1. sweep' \in Sweep /\ sweep'.deleting = Free
    BY <1>12 DEF purgeExpiredPending, NoSweep, Sweep
  <2> QED
    BY <1>11, <1>12, <2>1 DEF purgeExpiredPending, NamesOK, store, queues
<1>13. CASE purgeUnreferencedPublicChat
  <2>1. sweep' \in Sweep /\ sweep'.deleting = Free
    BY <1>13 DEF purgeUnreferencedPublicChat, NoSweep, Sweep
  <2> QED
    BY <1>11, <1>13, <2>1 DEF purgeUnreferencedPublicChat, NamesOK, store, queues
<1>14. ASSUME NEW a \in Att, forceDelete(a) PROVE OtherTypes' /\ NamesOK'
  <2>1. sweep' \in Sweep /\ sweep'.deleting = sweep.deleting /\ sweep.deleting = Free
    BY <1>0, <1>14 DEF forceDelete, OtherTypes, Sweep, NamesOK
  <2> QED
    BY <1>11, <1>14, <2>1 DEF forceDelete, NamesOK, queues
<1>15. ASSUME NEW a \in Att, startDelete(a) PROVE OtherTypes' /\ NamesOK'
  <2>1. CASE sweep' = [sweep EXCEPT !.deleting = a]
    <3>1. sweep' \in Sweep /\ sweep'.deleting = a /\ sweep'.pc = "orphans" /\ a \in sweep'.todo
      BY <1>0, <1>15, <2>1 DEF startDelete, OtherTypes, Sweep
    <3> QED
      BY <1>11, <1>15, <3>1 DEF startDelete, NamesOK, store, queues
  <2>2. CASE sweep' = Proceed([sweep EXCEPT !.todo = @ \ {a}])
    <3> DEFINE s == [sweep EXCEPT !.todo = @ \ {a}]
    <3>1. s \in Sweep /\ s.deleting = Free
      BY <1>0, <1>15 DEF startDelete, OtherTypes, Sweep
    <3> HIDE DEF s
    <3>2. sweep' \in Sweep /\ NamesOK'
      BY <1>5, <1>15, <2>2, <3>1 DEF startDelete, queues, s
    <3> QED
      BY <1>11, <1>15, <3>2 DEF startDelete, store
  <2> QED
    BY <1>15, <2>1, <2>2 DEF startDelete
<1>16. ASSUME NEW a \in Att, finishDelete(a) PROVE OtherTypes' /\ NamesOK'
  <2> DEFINE s == [sweep EXCEPT !.todo = @ \ {a}, !.deleting = Free]
  <2>1. s \in Sweep /\ s.deleting = Free
    BY <1>0 DEF OtherTypes, Sweep
  <2>2. sweep' = Proceed(s)
    BY <1>16 DEF finishDelete
  <2> HIDE DEF s
  <2>3. sweep' \in Sweep /\ NamesOK'
    BY <1>5, <1>16, <2>1, <2>2 DEF finishDelete, queues
  <2> QED
    BY <1>11, <1>16, <2>3 DEF finishDelete
<1> QED
  BY <1>6, <1>7, <1>8, <1>9, <1>10, <1>12, <1>13, <1>14, <1>15, <1>16 DEF Next, Sweeping

-------------------------------------------------------------------------------

(* What may become of each variable, and by which actions *)

Marks(h, a) ==
    /\ a \in HeldBy(h)
    /\ (Commit(h) /\ a \notin hold[h].want) \/ (h \in Note /\ deleteNote(h))

(* The row of an attachment.                                               *)
RowSteps(a) ==
    \/ Keep(a)
    \/ Fresh(a) /\ Exists(a)' /\ row'[a].status = "pending" /\ ~row'[a].deleted
    \/ /\ Exists(a) /\ Exists(a)' /\ row'[a].deleted = row[a].deleted
       /\ \/ row'[a].status = "uploaded" /\ \E r \in Request : request[r].att = a /\ save(r)
          \/ row[a].status = "uploaded" /\ row'[a].status = "processing" /\ \E w \in Worker : process(w, a)
          \/ row'[a].status \in {"ready", "failed"} /\ \E w \in Worker : Processes(w, a) /\ End(w)
          \/ row'[a].status = "deleted" /\ PurgeAttachmentFiles(a)
    \/ /\ Exists(a) /\ Exists(a)' /\ row'[a].deleted /\ row'[a].status = row[a].status
       /\ \E h \in Holder : Marks(h, a)
    \/ ~Exists(a)' /\ ~row'[a].deleted /\ row'[a].status = "none" /\ (forceDelete(a) \/ finishDelete(a))

LEMMA RowStep == ASSUME IInv, TypeOK, NamesOK, Next, NEW a \in Att PROVE RowSteps(a)
<1>0. ClaimTypes /\ (UNCHANGED row => Keep(a))
  BY DEF IInv, Keep, Exists
<1>1. ASSUME NEW b \in Att, NEW status \in AttachmentStatus, row' = Saved(b, status)
      PROVE  \/ Keep(a)
             \/ a = b /\ Exists(a) /\ Exists(a)' /\ row'[a].deleted = row[a].deleted /\ row'[a].status = status
  BY <1>0, <1>1, SavedIs, RowIs DEF Keep, Exists
<1>2. ASSUME NEW b \in Att, NEW from \in Ticketed, issue(b, from) PROVE RowSteps(a)
  <2>1. /\ row' = [row EXCEPT ![b] = [status |-> "pending", from |-> from, deleted |-> FALSE, derived |-> FALSE]]
        /\ Fresh(b)
    BY <1>2 DEF issue, Fresh
  <2>2. [status |-> "pending", from |-> from, deleted |-> FALSE, derived |-> FALSE] # NoRow
    BY DEF NoRow
  <2> QED
    BY <1>0, <2>1, <2>2 DEF RowSteps, Keep, Exists, ClaimTypes
<1>3. ASSUME NEW r \in Request, save(r) PROVE RowSteps(a)
  <2>1. request[r].att \in Att /\ row' = Saved(request[r].att, "uploaded")
    BY <1>3 DEF save, NamesOK
  <2>2. "uploaded" \in AttachmentStatus
    BY DEF AttachmentStatus
  <2> QED
    BY <1>1, <1>3, <2>1, <2>2 DEF RowSteps
<1>4. ASSUME NEW w \in Worker, NEW b \in Att, process(w, b) PROVE RowSteps(a)
  <2>1. CASE row[b].status = "uploaded"
    <3>1. row' = Saved(b, "processing") /\ "processing" \in AttachmentStatus
      BY <1>4, <2>1 DEF process, AttachmentStatus
    <3> QED
      BY <1>1, <1>4, <2>1, <3>1 DEF RowSteps
  <2>2. CASE row[b].status # "uploaded"
    BY <1>0, <1>4, <2>2 DEF process, RowSteps
  <2> QED
    BY <2>1, <2>2
<1>5. ASSUME NEW w \in Worker, End(w) PROVE RowSteps(a)
  <2>1. work[w].att \in Att /\ work[w].pc # "idle"
    BY <1>5 DEF End, ready, fail, quarantineInfected, NamesOK
  <2>2. PICK status \in {"ready", "failed"} : row' = Saved(work[w].att, status)
    BY <1>5 DEF End, ready, fail, quarantineInfected, Processed
  <2>3. status \in AttachmentStatus
    BY DEF AttachmentStatus
  <2> QED
    BY <1>1, <1>5, <2>1, <2>2, <2>3 DEF RowSteps, Processes
<1>6. ASSUME NEW w \in Worker, storeThumbs(w) PROVE RowSteps(a)
  <2>1. work[w].att \in Att /\ row' = Derived(work[w].att)
    BY <1>6 DEF storeThumbs, NamesOK
  <2> QED
    BY <1>0, <2>1, DerivedIs DEF RowSteps, Keeps
<1>7. ASSUME NEW b \in Att, PurgeAttachmentFiles(b) PROVE RowSteps(a)
  <2>1. row' = Saved(b, "deleted") /\ "deleted" \in AttachmentStatus
    BY <1>7 DEF PurgeAttachmentFiles, AttachmentStatus
  <2> QED
    BY <1>1, <1>7, <2>1 DEF RowSteps
<1>8. ASSUME NEW h \in Holder, Commit(h) \/ (h \in Note /\ deleteNote(h)) PROVE RowSteps(a)
  <2>1. PICK S \in SUBSET Att :
          /\ S \subseteq HeldBy(h)
          /\ \A b \in S : Marks(h, b)
          /\ row' = [b \in Att |-> IF b \in S THEN [row[b] EXCEPT !.deleted = TRUE] ELSE row[b]]
    <3>1. HeldBy(h) \subseteq Att
      BY DEF HeldBy
    <3>2. CASE Commit(h)
      <4> DEFINE S == HeldBy(h) \ hold[h].want
      <4>1. \A b \in S : Marks(h, b)
        BY <3>2 DEF Marks
      <4>2. row' = [b \in Att |-> IF b \in S THEN [row[b] EXCEPT !.deleted = TRUE] ELSE row[b]]
        BY <3>2 DEF Commit
      <4> QED
        BY <3>1, <4>1, <4>2
    <3>3. CASE h \in Note /\ deleteNote(h)
      <4>1. \A b \in HeldBy(h) : Marks(h, b)
        BY <3>3 DEF Marks
      <4>2. row' = [b \in Att |-> IF b \in HeldBy(h) THEN [row[b] EXCEPT !.deleted = TRUE] ELSE row[b]]
        BY <3>3 DEF deleteNote
      <4> QED
        BY <3>1, <4>1, <4>2
    <3> QED
      BY <1>8, <3>2, <3>3
  <2>2. \A b \in S : Exists(b)
    BY <2>1 DEF IInv, HeldExist
  <2>3. /\ (Exists(a)' <=> Exists(a)) /\ row'[a].status = row[a].status
        /\ a \in S => row'[a].deleted
        /\ a \notin S => row'[a] = row[a]
    BY <1>0, <2>1, <2>2, MarkedIs
  <2> QED
    BY <2>1, <2>2, <2>3 DEF RowSteps, Keep
<1>9. ASSUME NEW b \in Att, forceDelete(b) \/ finishDelete(b) PROVE RowSteps(a)
  <2>1. row' = [row EXCEPT ![b] = NoRow]
    BY <1>9 DEF forceDelete, finishDelete, Remove
  <2>2. NoRow.status = "none" /\ NoRow.deleted = FALSE
    BY DEF NoRow
  <2>3. CASE a = b
    BY <1>0, <1>9, <2>1, <2>2, <2>3 DEF RowSteps, Exists, ClaimTypes
  <2>4. CASE a # b
    BY <1>0, <2>1, <2>4 DEF RowSteps, Keep, Exists, ClaimTypes
  <2> QED
    BY <2>3, <2>4
<1>10. UNCHANGED row => RowSteps(a)
  BY <1>0 DEF RowSteps
<1>11. CASE Uploading
  BY <1>2, <1>10, <1>11 DEF Uploading, Elapse, replay, binary, finish, store
<1>12. CASE Completion
  BY <1>3, <1>10, <1>12 DEF Completion, Step, copy, copyFails, answer, abandon, store
<1>13. CASE Processing
  BY <1>4, <1>5, <1>6, <1>10, <1>13 DEF Processing, die, store
<1>14. CASE Holding
  <2>1. ASSUME NEW h \in Holder, Rollback(h) \/ (\E S \in SUBSET Att : Claim(h, S)) \/ deleteMessage(h)
                                    \/ deleteRollsBack(h)
        PROVE  RowSteps(a)
    BY <1>10, <2>1 DEF Rollback, Claim, deleteMessage, deleteRollsBack, store
  <2> QED
    BY <1>8, <1>14, <2>1 DEF Holding, Holder
<1>15. CASE Sweeping \/ purgeExpiredPending \/ purgeUnreferencedPublicChat
  BY <1>9, <1>10, <1>15 DEF Sweeping, startDelete, purgeExpiredPending, purgeUnreferencedPublicChat, store
<1> QED
  BY <1>7, <1>11, <1>12, <1>13, <1>14, <1>15 DEF Next

(* Only the age of a row that exists grows.                                *)
LEMMA AgeStep ==
    ASSUME TypeOK, Next, NEW a \in Att
    PROVE  age'[a] \in 0..2 /\ age'[a] >= age[a] /\ (age'[a] # age[a] => Exists(a) /\ row' = row)
<1>1. CASE Uploading
  BY <1>1 DEF Uploading, Elapse, issue, replay, binary, finish, store, TypeOK
<1>2. UNCHANGED age => age'[a] \in 0..2 /\ age'[a] >= age[a] /\ age'[a] = age[a]
  BY DEF TypeOK
<1>3. CASE ~Uploading
  <2>1. UNCHANGED age
    BY <1>3 DEF Next, Completion, Step, copy, copyFails, save, answer, abandon, Processing, End, ready, fail, quarantineInfected,
         Processed, storeThumbs, die, process, Holding, Commit, Rollback, Claim, deleteMessage, deleteRollsBack, deleteNote, Sweeping,
         forceDelete, startDelete, finishDelete, purgeExpiredPending, purgeUnreferencedPublicChat,
         PurgeAttachmentFiles, store
  <2> QED
    BY <1>2, <2>1
<1> QED
  BY <1>1, <1>3

(* What a complete() under way becomes.                                    *)
LEMMA RequestStep ==
    ASSUME TypeOK, NamesOK, Next, NEW r \in Request
    PROVE  \/ request'[r] \in {request[r], Idle}
           \/ \E a \in Att : finish(r, a) /\ request'[r].pc = "checked" /\ request'[r].att = a
           \/ /\ request'[r].att = request[r].att /\ request[r].att \in Att
              /\ \/ copy(r) /\ request'[r].pc = "copied" /\ Stored(request[r].att, "upload")
                 \/ copyFails(r) /\ request'[r].pc = "copied" /\ Stored(request[r].att, "original") /\ objects' = objects
                 \/ save(r) /\ request'[r].pc = "saved"
<1>1. request \in [Request -> Completing] /\ (request[r].pc # "idle" => request[r].att \in Att)
  BY DEF TypeOK, NamesOK
<1>2. CASE Uploading
  BY <1>1, <1>2 DEF Uploading, Elapse, issue, replay, binary, finish
<1>3. ASSUME NEW q \in Request, request' = request \/ \E v : request' = [request EXCEPT ![q] = v], q # r
      PROVE  request'[r] = request[r]
  BY <1>1, <1>3
<1>4. CASE Completion
  <2>1. PICK q \in Request : Step(q) \/ abandon(q)
    BY <1>4 DEF Completion
  <2>2. CASE q # r
    <3>1. \E v : request' = [request EXCEPT ![q] = v]
      BY <2>1 DEF Step, copy, copyFails, save, answer, abandon
    <3> QED
      BY <1>3, <2>2, <3>1
  <2>3. CASE q = r /\ (abandon(r) \/ answer(r))
    BY <1>1, <2>3 DEF abandon, answer
  <2>4. CASE q = r /\ (copy(r) \/ copyFails(r) \/ save(r))
    <3>1. request[r] \in Completing /\ request[r].att \in Att
      BY <1>1, <2>4 DEF copy, copyFails, save
    <3>2. /\ [request[r] EXCEPT !.pc = "copied"].pc = "copied" /\ [request[r] EXCEPT !.pc = "saved"].pc = "saved"
          /\ [request[r] EXCEPT !.pc = "copied"].att = request[r].att
          /\ [request[r] EXCEPT !.pc = "saved"].att = request[r].att
      BY <3>1 DEF Completing
    <3>3. \/ copy(r) /\ Stored(request[r].att, "upload") /\ request'[r] = [request[r] EXCEPT !.pc = "copied"]
          \/ /\ copyFails(r) /\ Stored(request[r].att, "original") /\ objects' = objects
             /\ request'[r] = [request[r] EXCEPT !.pc = "copied"]
          \/ save(r) /\ request'[r] = [request[r] EXCEPT !.pc = "saved"]
          \/ request'[r] = Idle
      BY <1>1, <2>4 DEF copy, copyFails, save
    <3> QED
      BY <3>1, <3>2, <3>3
  <2> QED
    BY <2>1, <2>2, <2>3, <2>4 DEF Step
<1>5. CASE ~Uploading /\ ~Completion
  <2>1. UNCHANGED request
    BY <1>5 DEF Next, Processing, End, ready, fail, quarantineInfected,
         Processed, storeThumbs, die, process, Holding, Commit, Rollback, Claim, deleteMessage, deleteRollsBack, deleteNote, Sweeping,
         forceDelete, startDelete, finishDelete, purgeExpiredPending, purgeUnreferencedPublicChat,
         PurgeAttachmentFiles
  <2> QED
    BY <2>1
<1> QED
  BY <1>2, <1>4, <1>5

(* What a worker at work becomes.                                          *)
LEMMA WorkStep ==
    ASSUME TypeOK, NamesOK, Next, NEW w \in Worker
    PROVE  \/ work'[w].pc = "idle" \/ work'[w] = work[w]
           \/ storeThumbs(w) /\ work[w].pc # "idle" /\ work'[w].att = work[w].att
           \/ \E a \in Att : process(w, a) /\ row[a].status = "uploaded" /\ work'[w].att = a
<1>1. work \in [Worker -> Working] /\ Idle.pc = "idle"
  BY DEF TypeOK, Idle
<1>2. CASE Processing
  <2>1. PICK v \in Worker : End(v) \/ storeThumbs(v) \/ die(v) \/ (\E a \in Att : process(v, a))
    BY <1>2 DEF Processing
  <2>2. CASE v # w
    <3>1. work' = work \/ \E x : work' = [work EXCEPT ![v] = x]
      BY <2>1 DEF End, ready, fail, quarantineInfected, Processed, storeThumbs, die, process
    <3> QED
      BY <1>1, <2>2, <3>1
  <2>3. CASE v = w /\ (End(w) \/ die(w))
    BY <1>1, <2>3 DEF End, ready, fail, quarantineInfected, Processed, die
  <2>4. CASE v = w /\ storeThumbs(w)
    <3>1. work[w] \in Working /\ work'[w] = [work[w] EXCEPT !.pc = "rendered"] /\ work[w].pc = "read"
      BY <1>1, <2>4 DEF storeThumbs
    <3>2. work'[w].att = work[w].att
      BY <3>1 DEF Working
    <3> QED
      BY <2>4, <3>1, <3>2
  <2>5. CASE v = w /\ \E a \in Att : process(w, a)
    <3>1. PICK a \in Att : process(w, a)
      BY <2>5
    <3>2. CASE row[a].status = "uploaded"
      <4>1. work'[w] = [pc |-> "read", att |-> a]
        BY <1>1, <3>1, <3>2 DEF process
      <4> QED
        BY <3>1, <3>2, <4>1
    <3>3. CASE row[a].status # "uploaded"
      BY <3>1, <3>3 DEF process
    <3> QED
      BY <3>2, <3>3
  <2> QED
    BY <2>1, <2>2, <2>3, <2>4, <2>5
<1>3. CASE ~Processing
  <2>1. UNCHANGED work
    BY <1>3 DEF Next, Uploading, Elapse, issue, replay, binary, finish, Completion, Step, copy, copyFails, save, answer, abandon,
         Holding, Commit, Rollback, Claim, deleteMessage, deleteRollsBack, deleteNote, Sweeping, forceDelete, startDelete, finishDelete,
         purgeExpiredPending, purgeUnreferencedPublicChat, PurgeAttachmentFiles, queues
  <2> QED
    BY <2>1
<1> QED
  BY <1>2, <1>3

(* Who lets go of a file queues its purge.                                 *)
LEMMA PurgeStep ==
    ASSUME TypeOK, Next, NEW a \in Att, purges'[a] > 0
    PROVE  \/ purges[a] > 0
           \/ \E h \in Holder : a \in HeldBy(h) /\ (Marks(h, a) \/ deleteMessage(h) \/ deleteRollsBack(h))
<1>1. purges \in [Att -> Nat]
  BY DEF TypeOK
<1>2. ASSUME NEW S, purges' = Count(purges, S)
      PROVE  purges[a] > 0 \/ a \in S
  BY <1>1, <1>2, Counting
<1>3. CASE Holding
  <2>1. ASSUME NEW h \in Holder, Commit(h) PROVE purges[a] > 0 \/ (a \in HeldBy(h) /\ Marks(h, a))
    <3>1. purges' = Count(purges, HeldBy(h) \ hold[h].want)
      BY <2>1 DEF Commit
    <3>2. purges[a] > 0 \/ a \in HeldBy(h) \ hold[h].want
      BY <1>2, <3>1
    <3> QED
      BY <2>1, <3>2 DEF Marks
  <2>2. ASSUME NEW h \in Message, deleteMessage(h) PROVE purges[a] > 0 \/ a \in HeldBy(h)
    BY <1>2, <2>2 DEF deleteMessage
  <2>3. ASSUME NEW h \in Note, deleteNote(h) PROVE purges[a] > 0 \/ (a \in HeldBy(h) /\ Marks(h, a))
    <3>1. purges[a] > 0 \/ a \in HeldBy(h)
      BY <1>2, <2>3 DEF deleteNote
    <3> QED
      BY <2>3, <3>1 DEF Marks
  <2>4. ASSUME NEW h \in Holder, Rollback(h) \/ (\E S \in SUBSET Att : Claim(h, S)) PROVE purges[a] > 0
    BY <2>4 DEF Rollback, Claim, queues
  <2>5. ASSUME NEW h \in Message \cup Note, deleteRollsBack(h) PROVE purges[a] > 0 \/ a \in HeldBy(h)
    BY <1>2, <2>5 DEF deleteRollsBack
  <2> QED
    BY <1>3, <2>1, <2>2, <2>3, <2>4, <2>5 DEF Holding, Holder
<1>4. ASSUME NEW b \in Att, PurgeAttachmentFiles(b)
      PROVE  purges[a] > 0
  <2>1. purges' = [purges EXCEPT ![b] = @ - 1]
    BY <1>4 DEF PurgeAttachmentFiles
  <2>2. purges'[a] = purges[a] \/ purges'[a] = purges[a] - 1
    BY <1>1, <2>1
  <2> QED
    BY <1>1, <2>2
<1>5. CASE ~Holding /\ ~(\E b \in Att : PurgeAttachmentFiles(b))
  <2>1. UNCHANGED purges
    BY <1>5 DEF Next, Uploading, Elapse, issue, replay, binary, finish, Completion, Step, copy, copyFails, save, answer, abandon,
         Processing, End, ready, fail, quarantineInfected, Processed, storeThumbs, die, process, Sweeping,
         forceDelete, startDelete, finishDelete, purgeExpiredPending, purgeUnreferencedPublicChat, queues
  <2> QED
    BY <2>1
<1> QED
  BY <1>3, <1>4, <1>5

(* Exposed files stay exposed.                                             *)
LEMMA ExposedStep == ASSUME Next PROVE exposed \subseteq exposed'
<1>1. CASE Completion
  BY <1>1 DEF Completion, Step, copy, copyFails, save, answer, abandon, history
<1>2. CASE Holding
  BY <1>2 DEF Holding, Commit, Rollback, Claim, deleteMessage, deleteRollsBack, deleteNote, history
<1>3. CASE ~Completion /\ ~Holding
  BY <1>3 DEF Next, Uploading, Elapse, issue, replay, binary, finish, Processing, End, ready, fail, quarantineInfected,
       Processed, storeThumbs, die, process, Sweeping, forceDelete, startDelete, finishDelete, purgeExpiredPending,
       purgeUnreferencedPublicChat, PurgeAttachmentFiles, history
<1> QED
  BY <1>1, <1>2, <1>3

Refuses(w, a) == Processes(w, a) /\ quarantineInfected(w)

(* The final object of an attachment goes.                                 *)
LEMMA OriginalStep ==
    ASSUME TypeOK, NamesOK, Next, NEW a \in Att, Stored(a, "original")
    PROVE  \/ Stored(a, "original")'
           \/ \E r \in Request : copy(r) /\ request[r].att = a /\ Stored(a, "wrong") /\ ~Stored(a, "upload")
           \/ \E r \in Request : copyFails(r) /\ request[r].att = a /\ a \in exposed'
           \/ \E w \in Worker : Refuses(w, a)
           \/ PurgeAttachmentFiles(a) \/ finishDelete(a)
<1>1. CASE Completion
  BY <1>1 DEF Completion, Step, copy, copyFails, save, answer, abandon, store, Stored
<1>2. CASE Processing
  <2>1. ASSUME NEW w \in Worker, quarantineInfected(w) PROVE Stored(a, "original")' \/ Refuses(w, a)
    BY <2>1 DEF quarantineInfected, Processed, Stored, Refuses, Processes
  <2>2. ASSUME NEW w \in Worker, ready(w) \/ fail(w) \/ storeThumbs(w) \/ die(w) \/ (\E b \in Att : process(w, b))
        PROVE  Stored(a, "original")'
    BY <2>2 DEF ready, fail, Processed, storeThumbs, die, process, store, Stored
  <2> QED
    BY <1>2, <2>1, <2>2 DEF Processing, End
<1>3. CASE Holding \/ Uploading \/ purgeExpiredPending \/ purgeUnreferencedPublicChat
  BY <1>3 DEF Holding, Commit, Rollback, Claim, deleteMessage, deleteRollsBack, deleteNote, Uploading, Elapse, issue, replay, binary, finish,
       purgeExpiredPending, purgeUnreferencedPublicChat, store, Stored
<1>4. CASE Sweeping
  BY <1>4 DEF Sweeping, forceDelete, startDelete, finishDelete, store, Stored
<1>5. ASSUME NEW b \in Att, PurgeAttachmentFiles(b)
      PROVE  Stored(a, "original")' \/ PurgeAttachmentFiles(a)
  BY <1>5 DEF PurgeAttachmentFiles, Stored
<1> QED
  BY <1>1, <1>2, <1>3, <1>4, <1>5 DEF Next

Lets(g) == (g \in Message /\ deleteMessage(g)) \/ (g \in Note /\ deleteNote(g))

(* What a holder was given, and what a claim asks for.                     *)
LEMMA HoldStep ==
    ASSUME TypeOK, NEW g \in Holder, NEW h \in Holder
    PROVE  /\ Commit(g) => IF g = h THEN hold'[h].want = {} /\ hold'[h].given = hold[h].want
                           ELSE hold'[h] = hold[h]
           /\ Rollback(g) \/ (\E S \in SUBSET Att : Claim(g, S)) =>
                 /\ hold'[h].given = hold[h].given /\ (Live(h)' => Live(h))
                 /\ \/ hold'[h].want \in {{}, hold[h].want}
                    \/ Claim(h, hold'[h].want)
           /\ Lets(g) => IF g = h THEN ~Live(h)' /\ hold'[h].want = hold[h].want
                         ELSE hold'[h] = hold[h]
<1>1. hold \in [Holder -> Hold]
  BY DEF TypeOK
<1>2. ASSUME Commit(g)
      PROVE  IF g = h THEN hold'[h].want = {} /\ hold'[h].given = hold[h].want
             ELSE hold'[h] = hold[h]
  BY <1>1, <1>2 DEF Commit
<1>3. ASSUME Rollback(g)
      PROVE  /\ hold'[h].given = hold[h].given /\ (Live(h)' => Live(h))
             /\ hold'[h].want \in {{}, hold[h].want}
  <2>1. hold[g] \in Hold /\ hold[g].phase \in {"creating", "editing"}
    BY <1>1, <1>3 DEF Rollback
  <2>2. hold' = [hold EXCEPT ![g] = [@ EXCEPT !.want = {}, !.phase = IF hold[g].phase = "creating" THEN "none" ELSE "live"]]
    BY <1>3 DEF Rollback
  <2>3. \A f \in Holder : f # g => hold'[f] = hold[f]
    BY <1>1, <2>2
  <2>4. hold'[g].want = {} /\ hold'[g].given = hold[g].given /\ (hold[g].phase = "creating" => hold'[g].phase = "none")
    BY <1>1, <2>1, <2>2 DEF Hold, Phase
  <2> QED
    BY <2>1, <2>3, <2>4 DEF Live
<1>4. ASSUME NEW S \in SUBSET Att, Claim(g, S)
      PROVE  /\ hold'[h].given = hold[h].given /\ (Live(h)' => Live(h))
             /\ hold'[h].want = hold[h].want \/ Claim(h, hold'[h].want)
  <2>1. hold[g] \in Hold /\ hold[g].phase \in {"none", "live"}
    BY <1>1, <1>4 DEF Claim
  <2>2. hold' = [hold EXCEPT ![g] = [@ EXCEPT !.want = S, !.phase = IF hold[g].phase = "none" THEN "creating" ELSE "editing"]]
    BY <1>4 DEF Claim
  <2>3. \A f \in Holder : f # g => hold'[f] = hold[f]
    BY <1>1, <2>2
  <2>4. hold'[g].want = S /\ hold'[g].given = hold[g].given /\ (hold[g].phase = "none" => hold'[g].phase = "creating")
    BY <1>1, <2>1, <2>2 DEF Hold, Phase
  <2> QED
    BY <1>4, <2>1, <2>3, <2>4 DEF Live
<1>5. ASSUME Lets(g)
      PROVE  IF g = h THEN ~Live(h)' /\ hold'[h].want = hold[h].want
             ELSE hold'[h] = hold[h]
  <2>1. hold[g] \in Hold /\ hold' = [hold EXCEPT ![g].phase = "deleted"]
    BY <1>1, <1>5 DEF deleteMessage, deleteNote, Lets
  <2> QED
    BY <1>1, <2>1 DEF Hold, Live
<1> QED
  BY <1>2, <1>3, <1>4, <1>5

(* The actions that change who holds what, or how.                         *)
LEMMA HoldingSteps ==
    ASSUME Next
    PROVE  \/ UNCHANGED <<pivot, hold>>
           \/ \E h \in Holder : Commit(h) \/ Lets(h) \/ Rollback(h) \/ (\E S \in SUBSET Att : Claim(h, S))
           \/ \E a \in Att : Remove(a) /\ hold' = hold /\ (forceDelete(a) \/ finishDelete(a))
<1>1. CASE Holding
  BY <1>1 DEF Holding, Lets, Holder, deleteRollsBack, claims
<1>2. CASE Sweeping
  BY <1>2 DEF Sweeping, forceDelete, finishDelete, startDelete, claims
<1>3. CASE ~Holding /\ ~Sweeping
  BY <1>3 DEF Next, Uploading, Elapse, issue, replay, binary, finish, Completion, Step, copy, copyFails, save, answer, abandon,
       Processing, End, ready, fail, quarantineInfected, Processed, storeThumbs, die, process,
       purgeExpiredPending, purgeUnreferencedPublicChat, PurgeAttachmentFiles, claims
<1> QED
  BY <1>1, <1>2, <1>3

(* Only a commit adds a holder.                                            *)
LEMMA PivotStep ==
    ASSUME TypeOK, Next, NEW a \in Att
    PROVE  \/ Holders(a)' \subseteq Holders(a)
           \/ \E h \in Holder : Commit(h) /\ a \in hold[h].want /\ Holders(a)' = Holders(a) \cup {h}
<1>1. ASSUME NEW h \in Holder, Commit(h)
      PROVE  \/ Holders(a)' \subseteq Holders(a)
             \/ a \in hold[h].want /\ Holders(a)' = Holders(a) \cup {h}
  <2>1. pivot' = {p \in pivot : p[1] # h} \cup ({h} \X hold[h].want)
    BY <1>1 DEF Commit
  <2> QED
    BY <2>1 DEF Holders
<1>2. ASSUME NEW h \in Holder, Lets(h) \/ Rollback(h) \/ (\E S \in SUBSET Att : Claim(h, S))
      PROVE  Holders(a)' \subseteq Holders(a)
  BY <1>2 DEF Lets, deleteMessage, deleteNote, Rollback, Claim, Holders
<1>3. ASSUME NEW b \in Att, Remove(b) PROVE Holders(a)' \subseteq Holders(a)
  BY <1>3 DEF Remove, Holders
<1>4. UNCHANGED pivot => Holders(a)' = Holders(a)
  BY DEF Holders
<1> QED
  BY <1>1, <1>2, <1>3, <1>4, HoldingSteps

(* The sweeps' lists.                                                      *)
LEMMA SweepStep ==
    ASSUME TypeOK, NamesOK, Next, NEW a \in Att
    PROVE  /\ a \in sweep'.todo =>
                 \/ a \in sweep.todo /\ sweep'.pc = sweep.pc
                 \/ sweep'.pc = "tickets" /\ row[a].status = "pending" /\ age[a] > 0 /\ UNCHANGED <<row, age>>
                 \/ /\ sweep'.pc = "orphans" /\ Exists(a) /\ row[a].status \in reclaimableStatuses /\ age[a] = 2
                    /\ UNCHANGED <<row, age>>
           /\ sweep'.deleting = a => sweep.deleting = a \/ (Holders(a) = {} /\ UNCHANGED pivot)
<1>1. sweep \in Sweep /\ Free \notin Att
  BY UploadsAssumption DEF TypeOK
<1>2. NoSweep.todo = {} /\ NoSweep.deleting = Free
  BY DEF NoSweep
<1>3. CASE purgeExpiredPending
  BY <1>1, <1>3 DEF purgeExpiredPending, NoSweep, store
<1>4. CASE purgeUnreferencedPublicChat
  BY <1>1, <1>2, <1>4 DEF purgeUnreferencedPublicChat, Public, store
<1>5. ASSUME NEW b \in Att, forceDelete(b)
      PROVE  sweep'.todo \subseteq sweep.todo /\ sweep'.pc = sweep.pc /\ sweep'.deleting = sweep.deleting
  BY <1>1, <1>5 DEF forceDelete, Sweep
<1>6. ASSUME NEW s \in Sweep, sweep' = Proceed(s), s.todo \subseteq sweep.todo, s.pc = sweep.pc, s.deleting = Free
      PROVE  /\ a \in sweep'.todo => a \in sweep.todo /\ sweep'.pc = sweep.pc
             /\ sweep'.deleting # a
  BY <1>1, <1>2, <1>6, ProceedIs
<1>7. ASSUME NEW b \in Att, startDelete(b)
      PROVE  /\ a \in sweep'.todo => a \in sweep.todo /\ sweep'.pc = sweep.pc
             /\ sweep'.deleting = a => Holders(a) = {} /\ UNCHANGED pivot
  <2>1. CASE sweep' = [sweep EXCEPT !.deleting = b] /\ StillUnreferenced(b)
    BY <1>1, <1>7, <2>1 DEF startDelete, Sweep, StillUnreferenced, Unreferenced, claims
  <2>2. CASE sweep' = Proceed([sweep EXCEPT !.todo = @ \ {b}])
    <3> DEFINE s == [sweep EXCEPT !.todo = @ \ {b}]
    <3>1. s \in Sweep /\ s.todo \subseteq sweep.todo /\ s.pc = sweep.pc /\ s.deleting = Free
      BY <1>1, <1>7 DEF startDelete, Sweep
    <3> HIDE DEF s
    <3> QED
      BY <1>6, <2>2, <3>1 DEF s
  <2> QED
    BY <1>7, <2>1, <2>2 DEF startDelete
<1>8. ASSUME NEW b \in Att, finishDelete(b)
      PROVE  /\ a \in sweep'.todo => a \in sweep.todo /\ sweep'.pc = sweep.pc
             /\ sweep'.deleting # a
  <2> DEFINE s == [sweep EXCEPT !.todo = @ \ {b}, !.deleting = Free]
  <2>1. s \in Sweep /\ s.todo \subseteq sweep.todo /\ s.pc = sweep.pc /\ s.deleting = Free
    BY <1>1 DEF Sweep
  <2>2. sweep' = Proceed(s)
    BY <1>8 DEF finishDelete
  <2> HIDE DEF s
  <2> QED
    BY <1>6, <2>1, <2>2
<1>9. CASE ~Sweeping /\ ~purgeExpiredPending /\ ~purgeUnreferencedPublicChat
  <2>1. UNCHANGED sweep
    BY <1>9 DEF Next, Uploading, Elapse, issue, replay, binary, finish, Completion, Step, copy, copyFails, save, answer, abandon,
         Processing, End, ready, fail, quarantineInfected, Processed, storeThumbs, die, process, Holding, Commit,
         Rollback, Claim, deleteMessage, deleteRollsBack, deleteNote, PurgeAttachmentFiles
  <2> QED
    BY <2>1
<1> QED
  BY <1>3, <1>4, <1>5, <1>7, <1>8, <1>9 DEF Sweeping

-------------------------------------------------------------------------------

(* What is over stays over *)

(* An upload that is over is not opened again.                             *)
LEMMA PastStays ==
    ASSUME IInv, TypeOK, NamesOK, PastOK, ObjectsOK, Next, NEW a \in Att
    PROVE  /\ Past(a) => Past(a)'
           /\ ~Fresh(a) => ~Fresh(a)'
<1>1. age[a] \in 0..2 /\ age'[a] \in 0..2 /\ age'[a] >= age[a]
  BY AgeStep DEF TypeOK
<1>2. RowSteps(a)
  BY RowStep
<1>3. forceDelete(a) \/ finishDelete(a) => age[a] > 0
  <2>1. forceDelete(a) \/ finishDelete(a) => a \in sweep.todo
    BY UploadsAssumption DEF forceDelete, finishDelete, NamesOK
  <2> QED
    BY <2>1 DEF PastOK
<1> QED
  BY <1>1, <1>2, <1>3 DEF RowSteps, Keep, Past, Fresh

(* Whatever comes to be queued, held or collected was uploaded.            *)
LEMMA PastStep == ASSUME IInv, TypeOK, NamesOK, PastOK, ObjectsOK, Next PROVE PastOK'
<1>0. \A a \in Att : Past(a) => Past(a)'
  BY PastStays
<1>1. ASSUME NEW r \in Request, request'[r].pc = "saved"
      PROVE  Past(request[r].att)'
  <2>1. CASE request'[r] \in {request[r], Idle}
    <3>1. request'[r] = request[r] /\ request[r].pc = "saved"
      BY <1>1, <2>1 DEF Idle
    <3>2. request[r].att \in Att
      BY <3>1 DEF NamesOK
    <3>3. Past(request[r].att)
      BY <3>1 DEF PastOK
    <3>4. PICK a \in Att : a = request'[r].att /\ Past(a)
      BY <3>1, <3>2, <3>3
    <3>5. Past(a)'
      BY <1>0, <3>4
    <3> QED
      BY <3>4, <3>5 DEF Past, Fresh, Exists
  <2>2. CASE /\ save(r) /\ request'[r].att = request[r].att /\ request[r].att \in Att
    <3>1. PICK a \in Att : a = request[r].att
      BY <2>2
    <3>2. row' = Saved(a, "uploaded") /\ age' = age /\ request[r].pc = "copied"
      BY <2>2, <3>1 DEF save
    <3>3. ~Fresh(a)
      BY <3>1, <3>2 DEF ObjectsOK
    <3>4. "uploaded" \in AttachmentStatus /\ ClaimTypes
      BY DEF IInv, AttachmentStatus
    <3>5. (Exists(a)' <=> Exists(a)) /\ row'[a].status = IF Exists(a) THEN "uploaded" ELSE "none"
      BY <3>2, <3>4, SavedIs
    <3>6. Past(a)'
      BY <3>2, <3>3, <3>5 DEF Past, Fresh
    <3> QED
      BY <2>2, <3>1, <3>6 DEF Past, Fresh, Exists
  <2>3. ~\E a \in Att : finish(r, a) /\ request'[r].pc = "checked"
    BY <1>1
  <2> QED
    BY <1>1, <2>1, <2>2, <2>3, RequestStep
<1>2. ASSUME NEW w \in Worker, work'[w].pc # "idle"
      PROVE  Past(work[w].att)'
  <2>1. CASE work[w].pc # "idle" /\ work'[w].att = work[w].att
    <3>1. work[w].att \in Att
      BY <2>1 DEF NamesOK
    <3>2. Past(work[w].att)
      BY <2>1 DEF PastOK
    <3>3. PICK a \in Att : a = work'[w].att /\ Past(a)
      BY <2>1, <3>1, <3>2
    <3>4. Past(a)'
      BY <1>0, <3>3
    <3> QED
      BY <3>3, <3>4 DEF Past, Fresh, Exists
  <2>2. ASSUME NEW a \in Att, row[a].status = "uploaded", work'[w].att = a
        PROVE  Past(work[w].att)'
    <3>1. Past(a)
      BY <2>2, RowIs DEF Past, Fresh, IInv
    <3>2. Past(a)'
      BY <1>0, <3>1
    <3> QED
      BY <2>2, <3>2 DEF Past, Fresh, Exists
  <2>3. work'[w] = work[w] => work[w].pc # "idle" /\ work'[w].att = work[w].att
    BY <1>2
  <2> QED
    BY <1>2, <2>1, <2>2, <2>3, WorkStep
<1>3. ASSUME NEW a \in Att, purges'[a] > 0
      PROVE  Past(a)'
  BY <1>0, <1>3, PurgeStep DEF PastOK
<1>4. ASSUME NEW h \in Holder, NEW a \in Att, a \in HeldBy(h)' \cup hold'[h].want
      PROVE  Past(a)'
  <2>1. ASSUME NEW g \in Holder, NEW S \in SUBSET Att, Claim(g, S), a \in S
        PROVE  Past(a)
    <3>1. CASE <<g, a>> \in pivot
      BY <3>1 DEF PastOK, HeldBy
    <3>2. CASE <<g, a>> \notin pivot
      <4>1. row[a].status \in Claimable
        BY <2>1, <3>2 DEF Claim, MayClaim
      <4> QED
        BY <4>1, RowIs DEF Past, Fresh, Claimable, IInv
    <3> QED
      BY <3>1, <3>2
  <2>2. CASE a \in HeldBy(h)'
    <3>1. h \in Holders(a)'
      BY <2>2 DEF HeldBy, Holders
    <3>2. \A g \in Holders(a) : Past(a)
      BY DEF PastOK, HeldBy, Holders
    <3>3. \A g \in Holder : a \in hold[g].want => Past(a)
      BY DEF PastOK
    <3>4. Past(a)
      BY <3>1, <3>2, <3>3, PivotStep
    <3> QED
      BY <1>0, <3>4
  <2>3. CASE a \in hold'[h].want
    <3>1. a \in hold[h].want => Past(a)
      BY DEF PastOK
    <3>2. hold' = hold => Past(a)
      BY <2>3, <3>1
    <3>3. ASSUME NEW g \in Holder, Commit(g) \/ Lets(g) \/ Rollback(g) \/ (\E S \in SUBSET Att : Claim(g, S))
          PROVE  Past(a)
      <4>1. Commit(g) => a \in hold[h].want
        BY <2>3, HoldStep
      <4>2. Lets(g) => a \in hold[h].want
        BY <2>3, HoldStep
      <4>3. Rollback(g) \/ (\E S \in SUBSET Att : Claim(g, S)) =>
              a \in hold[h].want \/ Claim(h, hold'[h].want)
        BY <2>3, HoldStep
      <4>4. hold'[h].want \in SUBSET Att
        BY NextIInv DEF IInv, ClaimTypes, Hold
      <4> QED
        BY <2>1, <2>3, <3>1, <3>3, <4>1, <4>2, <4>3, <4>4
    <3>4. Past(a)
      BY <3>2, <3>3, HoldingSteps
    <3> QED
      BY <1>0, <3>4
  <2> QED
    BY <1>4, <2>2, <2>3
<1>5. ASSUME NEW a \in Att, a \in sweep'.todo
      PROVE  age'[a] > 0 /\ (sweep'.pc = "orphans" => Past(a)')
  <2>1. age[a] \in 0..2 /\ age'[a] \in 0..2 /\ age'[a] >= age[a]
    BY AgeStep DEF TypeOK
  <2>2. CASE a \in sweep.todo /\ sweep'.pc = sweep.pc
    BY <1>0, <2>1, <2>2 DEF PastOK
  <2>3. CASE sweep'.pc = "tickets" /\ age[a] > 0
    BY <2>1, <2>3
  <2>4. CASE Exists(a) /\ row[a].status \in reclaimableStatuses /\ age[a] = 2
    BY <1>0, <2>1, <2>4 DEF Past, Fresh, reclaimableStatuses
  <2> QED
    BY <1>5, <2>2, <2>3, <2>4, SweepStep
<1>6. /\ sweep'.todo \in SUBSET Att
      /\ \A h \in Holder : hold'[h].want \in SUBSET Att
      /\ \A h \in Holder : HeldBy(h)' \subseteq Att
  BY TypeStep, NextIInv DEF OtherTypes, Sweep, IInv, ClaimTypes, Hold, HeldBy
<1>7. \A h \in Holder : \A a \in HeldBy(h)' \cup hold'[h].want : Past(a)'
  <2> SUFFICES ASSUME NEW h \in Holder, NEW a \in HeldBy(h)' \cup hold'[h].want PROVE Past(a)'
    OBVIOUS
  <2>1. a \in Att
    BY <1>6
  <2> QED
    BY <1>4, <2>1
<1>8. \A a \in sweep'.todo : age'[a] > 0 /\ (sweep'.pc = "orphans" => Past(a)')
  BY <1>5, <1>6
<1>9. /\ \A r \in Request : request'[r].pc = "saved" => Past(request[r].att)'
      /\ \A w \in Worker : work'[w].pc # "idle" => Past(work[w].att)'
      /\ \A a \in Att : purges'[a] > 0 => Past(a)'
  BY <1>1, <1>2, <1>3
<1> QED
  BY ONLY <1>7, <1>8, <1>9 DEF PastOK, Past, Fresh, Exists, HeldBy

-------------------------------------------------------------------------------

(* Staging *)

(* What an attachment's objects may become.                                *)
Staged(a) ==
    /\ Stored(a, "wrong")' => Stored(a, "wrong") \/ (row[a].status = "pending" /\ row' = row /\ ~Stored(a, "upload")')
    /\ Stored(a, "wrong") /\ ~Stored(a, "upload") => ~Stored(a, "upload")'
    /\ Stored(a, "upload") =>
          \/ Stored(a, "upload")' \/ forceDelete(a) \/ ~Stored(a, "original")'
          \/ \E r \in Request : answer(r) /\ request[r].att = a
    /\ Stored(a, "original")' => Stored(a, "original") \/ Stored(a, "upload")'
    /\ \A key : Stored(a, key)' => Stored(a, key) \/ ~Fresh(a)

LEMMA StagingStep ==
    ASSUME IInv, TypeOK, NamesOK, PastOK, ObjectsOK, Next, NEW a \in Att
    PROVE  Staged(a)
<1>1. ASSUME NEW b \in Att, NEW bytes \in {"upload", "wrong"}, binary(b, bytes) PROVE Staged(a)
  <2>1. /\ row' = row /\ objects' = objects \cup {<<b, bytes>>}
        /\ row[b].status = "pending" /\ ~Stored(b, "upload") /\ ~Stored(b, "wrong")
    BY <1>1 DEF binary
  <2>2. ~Fresh(b)
    BY <2>1, RowIs DEF Fresh, IInv
  <2> QED
    BY <2>1, <2>2 DEF Staged, Stored
<1>2. ASSUME objects' \subseteq objects,
             Stored(a, "upload") /\ ~Stored(a, "upload")' =>
                forceDelete(a) \/ ~Stored(a, "original")' \/ (\E r \in Request : answer(r) /\ request[r].att = a)
      PROVE  Staged(a)
  BY <1>2 DEF Staged, Stored
<1>3. ASSUME NEW r \in Request, Step(r) \/ abandon(r) PROVE Staged(a)
  <2>1. CASE copy(r) /\ Stored(request[r].att, "upload")
    <3>1. PICK b \in Att : b = request[r].att
      BY <2>1 DEF copy, NamesOK
    <3>2. objects' = objects \cup {<<b, "original">>} /\ Stored(b, "upload")
      BY <2>1, <3>1 DEF copy
    <3>3. Fresh(a) => a # b
      BY <3>2, <2>1, <3>1 DEF ObjectsOK
    <3> QED
      BY <3>2, <3>3 DEF Staged, Stored
  <2>2. CASE copy(r) /\ ~Stored(request[r].att, "upload")
    <3>1. objects' \subseteq objects /\ (Stored(a, "upload") => Stored(a, "upload")')
      BY <2>2 DEF copy, Stored
    <3> QED
      BY <1>2, <3>1
  <2>3. CASE answer(r)
    <3>1. objects' \subseteq objects /\ (a # request[r].att /\ Stored(a, "upload") => Stored(a, "upload")')
      BY <2>3 DEF answer, Stored
    <3> QED
      BY <1>2, <2>3, <3>1
  <2>5. CASE copyFails(r)
    <3>1. objects' \subseteq objects /\ (Stored(a, "upload") => Stored(a, "upload")' \/ ~Stored(a, "original")')
      BY <2>5 DEF copyFails, Stored
    <3> QED
      BY <1>2, <3>1
  <2>4. CASE save(r) \/ abandon(r)
    <3>1. objects' = objects
      BY <2>4 DEF save, abandon, store
    <3> QED
      BY <1>2, <3>1 DEF Stored
  <2> QED
    BY <1>3, <2>1, <2>2, <2>3, <2>4, <2>5 DEF Step
<1>4. ASSUME NEW w \in Worker, storeThumbs(w) PROVE Staged(a)
  <2>1. PICK b \in Att : b = work[w].att
    BY <1>4 DEF storeThumbs, NamesOK
  <2>2. objects' = objects \cup {<<b, "thumb">>} /\ work[w].pc # "idle"
    BY <1>4, <2>1 DEF storeThumbs
  <2>3. ~Fresh(b)
    BY <2>1, <2>2 DEF PastOK, Past
  <2> QED
    BY <2>2, <2>3 DEF Staged, Stored
<1>5. ASSUME NEW w \in Worker, End(w) \/ die(w) \/ (\E b \in Att : process(w, b)) PROVE Staged(a)
  <2>1. objects' \subseteq objects /\ (Stored(a, "upload") => Stored(a, "upload")')
    BY <1>5 DEF End, ready, fail, quarantineInfected, Processed, die, process, store, Stored
  <2> QED
    BY <1>2, <2>1
<1>6. ASSUME NEW b \in Att, forceDelete(b) \/ startDelete(b) \/ finishDelete(b) \/ PurgeAttachmentFiles(b) PROVE Staged(a)
  <2>1. objects' \subseteq objects /\ (Stored(a, "upload") => Stored(a, "upload")' \/ (a = b /\ forceDelete(b)))
    BY <1>6 DEF forceDelete, startDelete, finishDelete, PurgeAttachmentFiles, store, Stored
  <2> QED
    BY <1>2, <2>1
<1>7. UNCHANGED objects => Staged(a)
  BY <1>2 DEF Stored
<1>8. CASE Uploading
  BY <1>1, <1>7, <1>8 DEF Uploading, Elapse, replay, issue, finish, store
<1>9. CASE Completion \/ Processing \/ Sweeping
  BY <1>3, <1>4, <1>5, <1>6, <1>9 DEF Completion, Processing, Sweeping
<1>10. CASE Holding \/ purgeExpiredPending \/ purgeUnreferencedPublicChat
  BY <1>7, <1>10 DEF Holding, Commit, Rollback, Claim, deleteMessage, deleteRollsBack, deleteNote, purgeExpiredPending,
     purgeUnreferencedPublicChat, store
<1> QED
  BY <1>6, <1>8, <1>9, <1>10 DEF Next

(* Who may still take an attachment out of "pending".                      *)
LEMMA PendingStep ==
    ASSUME IInv, TypeOK, NamesOK, PastOK, ObjectsOK, Next, NEW a \in Att
    PROVE  /\ row'[a].status = "pending" => row[a].status = "pending" \/ Fresh(a)
           /\ row[a].status = "pending" /\ Staging(a) =>
                 \/ row'[a].status = "pending" \/ forceDelete(a)
                 \/ Stored(a, "upload") /\ Stored(a, "original")
           /\ row[a].status = "pending" =>
                 /\ ~PurgeAttachmentFiles(a) /\ ~finishDelete(a)
                 /\ \A w \in Worker : ~Processes(w, a)
                 /\ \A r \in Request : answer(r) => request[r].att # a
<1>1. RowSteps(a)
  BY RowStep
<1>2. row[a].status = "pending" => ~Past(a) /\ ~Fresh(a)
  BY RowIs DEF Past, Fresh, IInv
<1>3. PurgeAttachmentFiles(a) => Past(a)
  BY DEF PurgeAttachmentFiles, PastOK
<1>4. finishDelete(a) => Past(a)
  BY UploadsAssumption DEF finishDelete, PastOK, NamesOK
<1>5. \A w \in Worker : Processes(w, a) => Past(a)
  BY DEF Processes, PastOK
<1>6. \A r \in Request : answer(r) /\ request[r].att = a => Past(a)
  BY DEF answer, PastOK
<1>7. \A r \in Request : save(r) /\ request[r].att = a /\ row[a].status = "pending" /\ Staging(a) =>
         Stored(a, "upload") /\ Stored(a, "original")
  BY DEF save, ObjectsOK, Staging
<1> QED
  BY <1>1, <1>2, <1>3, <1>4, <1>5, <1>6, <1>7 DEF RowSteps, Keep

(* Nobody stores under a ticket not issued, or removes only what was PUT.  *)
LEMMA ObjectsStep == ASSUME IInv, TypeOK, NamesOK, PastOK, ObjectsOK, Next PROVE ObjectsOK'
<1>0. \A a \in Att : Staged(a) /\ (~Fresh(a) => ~Fresh(a)')
  BY StagingStep, PastStays
<1>1. ASSUME NEW r \in Request, request'[r].pc # "idle"
      PROVE  ~Fresh(request[r].att)'
  <2>1. \/ request'[r] = request[r]
        \/ \E a \in Att : finish(r, a) /\ request'[r].att = a
        \/ request'[r].att = request[r].att /\ request[r].pc # "idle"
    <3>1. Idle.pc = "idle" /\ (copy(r) \/ copyFails(r) \/ save(r) => request[r].pc # "idle")
      BY DEF Idle, copy, copyFails, save
    <3> QED
      BY <1>1, <3>1, RequestStep
  <2>2. CASE request[r].pc # "idle" /\ request'[r].att = request[r].att
    <3>1. PICK a \in Att : a = request[r].att
      BY <2>2 DEF NamesOK
    <3>2. ~Fresh(a)
      BY <2>2, <3>1 DEF ObjectsOK
    <3>3. ~Fresh(a)'
      BY <1>0, <3>2
    <3> QED
      BY <2>2, <3>1, <3>3 DEF Fresh, Exists
  <2>3. ASSUME NEW a \in Att, finish(r, a), request'[r].att = a
        PROVE  ~Fresh(request[r].att)'
    <3>1. ~Fresh(a)
      BY <2>3, RowIs DEF finish, Fresh, IInv
    <3>2. ~Fresh(a)'
      BY <1>0, <3>1
    <3> QED
      BY <2>3, <3>2 DEF Fresh, Exists
  <2> QED
    BY <1>1, <2>1, <2>2, <2>3
<1>2. ASSUME NEW a \in Att, Fresh(a)'
      PROVE  \A key : ~Stored(a, key)'
  BY <1>0, <1>2 DEF Staged, ObjectsOK
<1>3. ASSUME NEW a \in Att, Stored(a, "wrong")'
      PROVE  ~Stored(a, "upload")'
  BY <1>0, <1>3 DEF Staged, ObjectsOK
<1>4. ASSUME NEW a \in Att, row'[a].status = "pending", Stored(a, "original")'
      PROVE  Stored(a, "upload")'
  <2>1. ~Fresh(a)
    BY <1>0, <1>4 DEF Staged, ObjectsOK
  <2>2. row[a].status = "pending"
    BY <1>4, <2>1, PendingStep
  <2>3. ~forceDelete(a)
    BY <1>4 DEF forceDelete, Remove, TypeOK, NoRow
  <2>4. CASE Stored(a, "original")
    <3>1. Stored(a, "upload")
      BY <2>2, <2>4 DEF ObjectsOK
    <3> QED
      BY <1>0, <1>4, <2>2, <2>3, <3>1, PendingStep DEF Staged
  <2>5. CASE ~Stored(a, "original")
    BY <1>0, <1>4, <2>5 DEF Staged
  <2> QED
    BY <2>4, <2>5
<1> QED
  BY <1>1, <1>2, <1>3, <1>4 DEF ObjectsOK

-------------------------------------------------------------------------------

(* Files that none of the known defects has exposed *)

(* What exposes a file.                                                    *)
LEMMA Exposures ==
    ASSUME TypeOK, NamesOK, NEW a \in Att, a \notin exposed'
    PROVE  /\ \A h \in Holder : Commit(h) /\ a \in hold[h].want => Holders(a) \ {h} = {} /\ sweep.deleting # a
           /\ \A h \in Holder : deleteMessage(h) \/ deleteRollsBack(h) => a \notin HeldBy(h)
           /\ \A r \in Request : save(r) /\ request[r].att = a =>
                 row[a].status = "pending" /\ ~(sweep.pc = "tickets" /\ a \in sweep.todo)
<1>1. ASSUME NEW h \in Holder, Commit(h), a \in hold[h].want
      PROVE  Holders(a) \ {h} = {} /\ sweep.deleting # a
  BY <1>1 DEF Commit
<1>2. ASSUME NEW h \in Holder, deleteMessage(h) \/ deleteRollsBack(h) PROVE a \notin HeldBy(h)
  BY <1>2 DEF deleteMessage, deleteRollsBack
<1>3. ASSUME NEW r \in Request, save(r), request[r].att = a
      PROVE  row[a].status = "pending" /\ ~(sweep.pc = "tickets" /\ a \in sweep.todo)
  BY <1>3 DEF save
<1> QED
  BY <1>1, <1>2, <1>3

(* What marking a file does.                                               *)
LEMMA MarksIs ==
    ASSUME IInv, NEW h \in Holder, NEW a \in Att, Marks(h, a)
    PROVE  row'[a].deleted /\ Holders(a)' \subseteq Holders(a) \ {h} /\ h \in Holders(a)
<1>1. a \in HeldBy(h) /\ row[a] \in Row
  BY RowIs DEF Marks, IInv, HeldExist
<1>2. row'[a] = [row[a] EXCEPT !.deleted = TRUE]
  BY <1>1 DEF Marks, Commit, deleteNote
<1>3. Holders(a)' \subseteq Holders(a) \ {h}
  BY <1>1 DEF Marks, Commit, deleteNote, Holders
<1> QED
  BY <1>1, <1>2, <1>3 DEF Row, HeldBy, Holders

(* A second holder would expose the file.                                  *)
LEMMA AloneStep ==
    ASSUME TypeOK, NamesOK, Next, NEW a \in Att, a \notin exposed', Alone(a)
    PROVE  Alone(a)'
<1>1. CASE Holders(a)' \subseteq Holders(a)
  BY <1>1 DEF Alone
<1>2. ASSUME NEW h \in Holder, Commit(h), a \in hold[h].want, Holders(a)' = Holders(a) \cup {h}
      PROVE  Alone(a)'
  <2>1. Holders(a) \ {h} = {}
    BY <1>2, Exposures
  <2>2. Holders(a)' = {h}
    BY <1>2, <2>1
  <2> QED
    BY <2>2 DEF Alone
<1> QED
  BY <1>1, <1>2, PivotStep

(* Who marks a file deleted was its holder, and lets go of it.             *)
LEMMA LetGoSteps ==
    ASSUME IInv, TypeOK, NamesOK, PastOK, Next, NEW a \in Att, a \notin exposed', Alone(a), LetGo(a)
    PROVE  LetGo(a)'
<1>1. RowSteps(a) /\ (row[a].deleted => Holders(a)' \subseteq Holders(a))
  BY RowStep, NextIInv DEF ReleasedStep
<1>2. ASSUME NEW h \in Holder, Marks(h, a)
      PROVE  row'[a].deleted /\ Holders(a)' = {}
  <2>1. row'[a].deleted /\ Holders(a)' \subseteq Holders(a) \ {h} /\ h \in Holders(a)
    BY <1>2, MarksIs
  <2> QED
    BY <2>1 DEF Alone
<1>3. row'[a].deleted => Holders(a)' = {}
  BY <1>1, <1>2 DEF RowSteps, Keep, LetGo
<1>4. ASSUME purges'[a] > 0, Exists(a)' PROVE row'[a].deleted
  <2>1. CASE purges[a] > 0
    <3>1. ~Fresh(a)
      BY <2>1 DEF PastOK, Past
    <3> QED
      BY <1>1, <1>4, <2>1, <3>1 DEF RowSteps, Keep, LetGo
  <2>2. ASSUME NEW h \in Holder, a \in HeldBy(h), Marks(h, a) \/ deleteMessage(h) \/ deleteRollsBack(h)
        PROVE  row'[a].deleted
    BY <1>2, <2>2, Exposures
  <2> QED
    BY <1>4, <2>1, <2>2, PurgeStep
<1> QED
  BY <1>3, <1>4 DEF LetGo

(* Only a completed ticket or a claim that races a sweep exposes the file. *)
LEMMA SweptStep ==
    ASSUME IInv, TypeOK, NamesOK, PastOK, ObjectsOK, Next, NEW a \in Att, a \notin exposed', Swept(a)
    PROVE  Swept(a)'
<1>1. ASSUME sweep'.deleting = a PROVE Holders(a)' = {}
  <2>1. CASE sweep.deleting = a
    <3>1. Holders(a) = {} /\ ~\E h \in Holder : Commit(h) /\ a \in hold[h].want
      BY <2>1, Exposures DEF Swept
    <3> QED
      BY <3>1, PivotStep
  <2>2. CASE Holders(a) = {} /\ UNCHANGED pivot
    BY <2>2 DEF Holders
  <2> QED
    BY <1>1, <2>1, <2>2, SweepStep
<1>2. ASSUME sweep'.pc = "tickets", a \in sweep'.todo, Exists(a)'
      PROVE  row'[a].status = "pending"
  <2>1. CASE a \in sweep.todo /\ sweep.pc = "tickets"
    <3>1. ~Fresh(a)
      BY <2>1 DEF PastOK, Fresh
    <3>2. Exists(a)
      BY <1>2, <3>1, RowStep DEF RowSteps, Keep
    <3>3. row[a].status = "pending"
      BY <2>1, <3>2 DEF Swept
    <3>4. ~\E r \in Request : request[r].att = a /\ save(r)
      BY <2>1, Exposures
    <3> QED
      BY <1>2, <3>1, <3>3, <3>4, RowStep, PendingStep DEF RowSteps, Keep
  <2>2. CASE row[a].status = "pending" /\ UNCHANGED row
    BY <2>2
  <2> QED
    BY <1>2, <2>1, <2>2, SweepStep
<1> QED
  BY <1>1, <1>2 DEF Swept

(* What is copied is saved with its bytes, whatever else is under way.     *)
LEMMA CopiedStep ==
    ASSUME IInv, TypeOK, NamesOK, PastOK, ObjectsOK, Next, NEW a \in Att, a \notin exposed', Staging(a)
    PROVE  Staging(a)'
<1>0. Staged(a)
  BY StagingStep
<1>1. ASSUME Stored(a, "wrong")'
      PROVE  row'[a].status = "pending"
  <2>1. CASE ~Stored(a, "wrong")
    BY <1>0, <1>1, <2>1 DEF Staged
  <2>2. CASE Stored(a, "wrong")
    <3>1. row[a].status = "pending" /\ ~Stored(a, "upload")
      BY <2>2 DEF Staging, ObjectsOK
    <3>2. ~forceDelete(a)
      BY <1>1 DEF forceDelete, Stored
    <3> QED
      BY <3>1, <3>2, PendingStep
  <2> QED
    BY <2>1, <2>2
<1>2. ASSUME NEW r \in Request, row'[a].status = "pending", request'[r].pc = "copied", request'[r].att = a
      PROVE  Stored(a, "original")'
  <2>1. /\ request[r].att = a
        /\ \/ request'[r] = request[r]
           \/ copy(r) /\ Stored(a, "upload")
           \/ copyFails(r) /\ Stored(a, "original") /\ objects' = objects
    BY <1>2, RequestStep DEF Idle
  <2>2. CASE request'[r] = request[r]
    <3>1. ~Fresh(a)
      BY <1>2, <2>1, <2>2 DEF ObjectsOK
    <3>2. row[a].status = "pending"
      BY <1>2, <3>1, PendingStep
    <3>3. Stored(a, "original") /\ ~Stored(a, "wrong")
      BY <1>2, <2>1, <2>2, <3>2 DEF Staging, ObjectsOK
    <3> QED
      BY <3>2, <3>3, OriginalStep, PendingStep DEF Refuses
  <2>3. CASE copy(r) /\ Stored(a, "upload")
    BY <2>1, <2>3 DEF copy, Stored
  <2>4. CASE Stored(a, "original") /\ objects' = objects
    BY <2>4 DEF Stored
  <2> QED
    BY <2>1, <2>2, <2>3, <2>4
<1> QED
  BY <1>1, <1>2 DEF Staging

(* Nobody but the holder itself takes a file from it.                      *)
LEMMA GivenStep ==
    ASSUME IInv, TypeOK, NamesOK, PastOK, Next, NEW a \in Att, Swept(a), Given(a)
    PROVE  Given(a)'
<1> SUFFICES ASSUME NEW h \in Holder, Live(h)', a \in hold'[h].given
             PROVE  <<h, a>> \in pivot'
  BY DEF Given
<1>1. ASSUME Live(h), a \in hold[h].given PROVE <<h, a>> \in pivot
  BY <1>1 DEF Given
<1>2. CASE UNCHANGED <<pivot, hold>>
  BY <1>1, <1>2 DEF Live
<1>3. ASSUME NEW g \in Holder, Commit(g) PROVE <<h, a>> \in pivot'
  <2>1. pivot' = {p \in pivot : p[1] # g} \cup ({g} \X hold[g].want)
    BY <1>3 DEF Commit
  <2>2. CASE g = h
    <3>1. hold'[h].given = hold[h].want
      BY <1>3, <2>2, HoldStep
    <3> QED
      BY <2>1, <2>2, <3>1
  <2>3. CASE g # h
    <3>1. hold'[h] = hold[h]
      BY <1>3, <2>3, HoldStep
    <3> QED
      BY <1>1, <2>1, <2>3, <3>1 DEF Live
  <2> QED
    BY <2>2, <2>3
<1>4. ASSUME NEW g \in Holder, Lets(g) PROVE <<h, a>> \in pivot'
  <2>1. pivot' = {p \in pivot : p[1] # g}
    BY <1>4 DEF Lets, deleteMessage, deleteNote
  <2>2. g # h /\ hold'[h] = hold[h]
    BY <1>4, HoldStep
  <2> QED
    BY <1>1, <2>1, <2>2 DEF Live
<1>5. ASSUME NEW g \in Holder, Rollback(g) \/ (\E S \in SUBSET Att : Claim(g, S)) PROVE <<h, a>> \in pivot'
  <2>1. pivot' = pivot
    BY <1>5 DEF Rollback, Claim
  <2>2. hold'[h].given = hold[h].given /\ Live(h)
    BY <1>5, HoldStep
  <2> QED
    BY <1>1, <2>1, <2>2
<1>6. ASSUME NEW b \in Att, Remove(b), hold' = hold, forceDelete(b) \/ finishDelete(b) PROVE <<h, a>> \in pivot'
  <2>1. <<h, a>> \in pivot /\ pivot' = {p \in pivot : p[2] # b}
    BY <1>1, <1>6 DEF Live, Remove
  <2>2. h \in Holders(a) /\ Past(a) /\ Exists(a)
    BY <2>1 DEF Holders, PastOK, HeldBy, IInv, HeldExist
  <2>3. ~forceDelete(a)
    BY <2>2 DEF Swept, forceDelete, Past
  <2>4. ~finishDelete(a)
    BY <2>2 DEF Swept, finishDelete
  <2> QED
    BY <1>6, <2>1, <2>3, <2>4
<1> QED
  BY <1>2, <1>3, <1>4, <1>5, <1>6, HoldingSteps

(* What the steps that take an object leave of its row.                    *)
LEMMA TakenIs ==
    ASSUME IInv, TypeOK, NamesOK, NEW a \in Att, Exists(a)
    PROVE  /\ \A w \in Worker : Refuses(w, a) => row'[a].status = "failed"
           /\ PurgeAttachmentFiles(a) => row'[a].status = "deleted"
           /\ finishDelete(a) => ~Exists(a)'
           /\ \A w \in Worker : process(w, a) /\ row[a].status = "uploaded" =>
                 row'[a].status = "processing" /\ \A v \in Worker : v # w => work'[v] = work[v]
<1>0. ClaimTypes /\ {"failed", "deleted", "processing"} \subseteq AttachmentStatus
  BY DEF IInv, AttachmentStatus
<1>1. ASSUME NEW w \in Worker, Refuses(w, a) PROVE row'[a].status = "failed"
  <2>1. row' = Saved(a, "failed")
    BY <1>1 DEF Refuses, Processes, quarantineInfected, Processed
  <2> QED
    BY <1>0, <2>1, SavedIs
<1>2. ASSUME PurgeAttachmentFiles(a) PROVE row'[a].status = "deleted"
  <2>1. row' = Saved(a, "deleted")
    BY <1>2 DEF PurgeAttachmentFiles
  <2> QED
    BY <1>0, <2>1, SavedIs
<1>3. finishDelete(a) => ~Exists(a)'
  BY DEF finishDelete, Remove, Exists, TypeOK
<1>4. ASSUME NEW w \in Worker, process(w, a), row[a].status = "uploaded"
      PROVE  row'[a].status = "processing" /\ \A v \in Worker : v # w => work'[v] = work[v]
  <2>1. row' = Saved(a, "processing") /\ work' = [work EXCEPT ![w] = [pc |-> "read", att |-> a]]
    BY <1>4 DEF process
  <2> QED
    BY <1>0, <2>1, SavedIs DEF TypeOK
<1> QED
  BY <1>1, <1>2, <1>3, <1>4

(* Only the worker at work on a file refuses it.                           *)
LEMMA WholeStep ==
    ASSUME IInv, TypeOK, NamesOK, PastOK, ObjectsOK, Next, NEW a \in Att, a \notin exposed', LetGo(a), Staging(a), Whole(a)
    PROVE  Whole(a)'
<1> SUFFICES ASSUME Exists(a)', ~row'[a].deleted
             PROVE  /\ row'[a].status # "deleted"
                    /\ row'[a].status \in {"uploaded", "processing", "ready"} => Stored(a, "original")'
                    /\ \A w \in Worker : Processes(w, a)' =>
                          row'[a].status = "processing" /\ \A v \in Worker : Processes(v, a)' => v = w
  BY DEF Whole
<1>1. RowSteps(a)
  BY RowStep
<1>2. \/ Fresh(a) /\ row'[a].status = "pending"
      \/ Exists(a) /\ ~row[a].deleted
  BY <1>1 DEF RowSteps, Keep
<1>3. ASSUME NEW w \in Worker, Processes(w, a)'
      PROVE  \/ Processes(w, a) /\ ~End(w)
             \/ process(w, a) /\ row[a].status = "uploaded"
  <2>1. \/ work'[w] = work[w]
        \/ storeThumbs(w) /\ work[w].pc # "idle" /\ work'[w].att = work[w].att
        \/ process(w, a) /\ row[a].status = "uploaded"
    BY <1>3, WorkStep DEF Processes
  <2>2. ~End(w)
    BY <1>3, Names DEF End, ready, fail, quarantineInfected, Processed, Processes, TypeOK
  <2> QED
    BY <1>3, <2>1, <2>2 DEF Processes
<1>4. CASE Fresh(a) /\ row'[a].status = "pending"
  <2>1. row[a].status # "uploaded" /\ \A w \in Worker : ~Processes(w, a)
    BY <1>4, RowIs DEF Fresh, IInv, PastOK, Past, Processes
  <2> QED
    BY <1>3, <1>4, <2>1
<1>5. CASE Exists(a) /\ ~row[a].deleted
  <2>1. /\ row[a].status # "deleted"
        /\ row[a].status \in {"uploaded", "processing", "ready"} => Stored(a, "original")
        /\ \A w \in Worker : Processes(w, a) =>
              row[a].status = "processing" /\ \A v \in Worker : Processes(v, a) => v = w
    BY <1>5 DEF Whole
  <2>2. ~PurgeAttachmentFiles(a)
    BY <1>5 DEF LetGo, PurgeAttachmentFiles
  <2>3. \A r \in Request : request[r].att = a /\ save(r) => row[a].status = "pending" /\ Stored(a, "original")'
    BY Exposures DEF save, Staging, Stored
  <2>4. \/ row'[a].status = row[a].status
        \/ \E r \in Request : request[r].att = a /\ save(r) /\ row'[a].status = "uploaded"
        \/ row[a].status = "uploaded" /\ row'[a].status = "processing"
        \/ row'[a].status \in {"ready", "failed"} /\ \E w \in Worker : Processes(w, a) /\ End(w)
    BY <1>1, <1>5, <2>2 DEF RowSteps, Keep, Fresh
  <2>5. row'[a].status # "deleted"
    BY <2>1, <2>4
  <2>6. ASSUME row'[a].status \in {"uploaded", "processing", "ready"} PROVE Stored(a, "original")'
    <3>1. CASE \E r \in Request : request[r].att = a /\ save(r)
      BY <2>3, <3>1
    <3>2. CASE ~\E r \in Request : request[r].att = a /\ save(r)
      <4>1. Stored(a, "original") /\ row[a].status # "pending"
        BY <2>1, <2>4, <2>6, <3>2
      <4>2. ~Stored(a, "wrong")
        BY <4>1 DEF Staging
      <4> QED
        BY <1>5, <2>2, <2>6, <4>1, <4>2, OriginalStep, TakenIs
    <3> QED
      BY <3>1, <3>2
  <2>7. ASSUME NEW w \in Worker, Processes(w, a)'
        PROVE  row'[a].status = "processing" /\ \A v \in Worker : Processes(v, a)' => v = w
    <3>1. CASE Processes(w, a) /\ ~End(w)
      <4>1. row[a].status = "processing" /\ \A v \in Worker : Processes(v, a) => v = w
        BY <2>1, <3>1
      <4>2. row'[a].status = "processing"
        BY <2>3, <2>4, <3>1, <4>1
      <4>3. \A v \in Worker : Processes(v, a)' => v = w
        BY <1>3, <4>1
      <4> QED
        BY <4>2, <4>3
    <3>2. CASE process(w, a) /\ row[a].status = "uploaded"
      <4>1. row'[a].status = "processing" /\ \A v \in Worker : v # w => work'[v] = work[v]
        BY <1>5, <3>2, TakenIs
      <4>2. \A v \in Worker : ~Processes(v, a)
        BY <2>1, <3>2
      <4> QED
        BY <4>1, <4>2 DEF Processes
    <3> QED
      BY <1>3, <2>7, <3>1, <3>2
  <2> QED
    BY <2>5, <2>6, <2>7
<1> QED
  BY <1>2, <1>4, <1>5

(* Every step keeps the invariant.                                         *)
LEMMA FilesStep == FilesInv /\ [Next]_vars => FilesInv'
<1>1. ASSUME FilesInv, Next PROVE FilesInv'
  <2>0. /\ IInv /\ TypeOK /\ NamesOK /\ PastOK /\ ObjectsOK
        /\ \A a \in Att \ exposed : FileOK(a)
    BY <1>1 DEF FilesInv
  <2>1. IInv'
    BY <1>1, <2>0, NextIInv
  <2>2. OtherTypes' /\ NamesOK'
    BY <1>1, <2>0, TypeStep
  <2>3. TypeOK'
    BY <2>1, <2>2 DEF IInv, ClaimTypes, OtherTypes, TypeOK
  <2>4. PastOK' /\ ObjectsOK'
    BY <1>1, <2>0, PastStep, ObjectsStep
  <2>5. ASSUME NEW a \in Att, a \notin exposed' PROVE FileOK(a)'
    <3>1. a \notin exposed
      BY <1>1, <2>5, ExposedStep
    <3>2. Alone(a) /\ LetGo(a) /\ Swept(a) /\ Staging(a) /\ Whole(a) /\ Given(a)
      BY <2>0, <3>1 DEF FileOK
    <3>3. Alone(a)' /\ LetGo(a)'
      BY <1>1, <2>0, <2>5, <3>2, AloneStep, LetGoSteps
    <3>4. Swept(a)' /\ Whole(a)'
      BY <1>1, <2>0, <2>5, <3>2, SweptStep, WholeStep
    <3>6. Staging(a)'
      BY <1>1, <2>0, <2>5, <3>2, CopiedStep
    <3>5. Given(a)'
      BY <1>1, <2>0, <3>2, GivenStep
    <3> QED
      BY <3>3, <3>4, <3>5, <3>6 DEF FileOK
  <2>6. \A a \in Att \ exposed' : FileOK(a)'
    BY <2>5
  <2> QED
    BY <2>1, <2>2, <2>3, <2>4, <2>6 DEF FilesInv
<1>2. ASSUME FilesInv, UNCHANGED vars PROVE FilesInv'
  BY <1>2 DEF FilesInv, IInv, ClaimTypes, HeldExist, HeldBy, ClaimOK, Claiming, NeverShared, Holders, TypeOK, NamesOK,
     PastOK, Past, Fresh, ObjectsOK, Stored, FileOK, Alone, LetGo, Swept, Staging, Whole, Given, Live, Processes, Exists,
     vars, store, claims, queues, history
<1> QED
  BY <1>1, <1>2

-------------------------------------------------------------------------------

(* What is stored, queued and under way fits together in every behaviour.  *)
THEOREM FilesInvariance == Spec => []FilesInv
  BY TypeInit, FilesStep, PTL DEF Spec

(* Rows, objects, claims, jobs and sweeps stay in their types: a worker's  *)
(* or a request's UPDATE of a row that a sweep removed makes no row.       *)
THEOREM TypeCorrect == Spec => []TypeOK
<1>1. FilesInv => TypeOK
  BY DEF FilesInv
<1> QED
  BY <1>1, FilesInvariance, PTL

(* What is live keeps its row, its claim and its bytes, whatever of the    *)
(* uploads, workers, purges and sweeps of UploadService, ProcessAttachment,*)
(* PurgeAttachmentFiles and PurgeExpiredUploads runs between its steps,    *)
(* unless one of the six defects named at LiveFilesKept exposed the file. *)
THEOREM LiveFilesAreKept == Spec => []LiveFilesKept
<1>1. FilesInv => LiveFilesKept
  <2> SUFFICES ASSUME FilesInv, NEW h \in Holder, NEW a \in hold[h].given \ exposed, Live(h)
               PROVE  /\ Exists(a) /\ <<h, a>> \in pivot
                      /\ Stored(a, "original") \/ row[a].status = "failed"
    BY DEF LiveFilesKept, Live
  <2>0. IInv /\ ClaimTypes /\ TypeOK /\ PastOK /\ a \in Att /\ FileOK(a)
    BY DEF FilesInv, IInv, TypeOK, Hold
  <2>1. <<h, a>> \in pivot
    BY <2>0 DEF FileOK, Given
  <2>2. Exists(a) /\ Past(a) /\ h \in Holders(a)
    BY <2>0, <2>1 DEF IInv, HeldExist, HeldBy, PastOK, Holders
  <2>3. ~row[a].deleted
    BY <2>0, <2>2 DEF FileOK, LetGo
  <2>4. row[a].status \in AttachmentStatus \ {"pending", "deleted"}
    BY <2>0, <2>2, <2>3, RowIs DEF Past, FileOK, Whole
  <2> QED
    BY <2>0, <2>1, <2>2, <2>3, <2>4 DEF FileOK, Whole, AttachmentStatus
<1> QED
  BY <1>1, FilesInvariance, PTL
===============================================================================
