-------------------------- MODULE SocialDraftProofs -------------------------
(***************************************************************************)
(* Theorems about SocialDraft, for any number of drafters, requests and    *)
(* picks; about the weekly roundup and its calendar, for any matches and   *)
(* any hour it is fired at; and about the votes and views of readers       *)
(* (Activity), for any number of requests, matches and seeds.              *)
(***************************************************************************)
EXTENDS MCAudience, FiniteSetTheorems, TLAPS

-----------------------------------------------------------------------------
(* Drafts                                                                  *)

LEMMA NewDraftType == NewDraft \in Draft
<1>1. 0 \in Caption
  BY SocialAssumption DEF Caption
<1>2. <<>> \in Seq(Entry)
  OBVIOUS
<1>3. QED
  BY <1>1, <1>2 DEF NewDraft, Draft, Statuses

LEMMA MovedFacts ==
    ASSUME NEW cur \in Draft, NEW to \in Statuses
    PROVE  /\ Moved(cur, to) \in Draft
           /\ Moved(cur, to).status = to
           /\ Moved(cur, to).posted = (cur.posted \/ to = "published")
<1>1. cur.posted \in BOOLEAN
  BY DEF Draft
<1>2. (cur.posted \/ to = "published") \in BOOLEAN
  BY <1>1
<1>3. QED
  BY <1>1, <1>2 DEF Moved, Draft

LEMMA EditedFacts ==
    ASSUME NEW cur \in Draft, NEW read \in Draft, NEW field \in Fields, NEW text \in Caption
    PROVE  /\ Edited(cur, read, field, text) \in Draft
           /\ Edited(cur, read, field, text).status = cur.status
           /\ Edited(cur, read, field, text).posted = cur.posted
           /\ Last(Edited(cur, read, field, text).history) \in Entry
<1> DEFINE e == [field |-> field, before |-> read.caption[field], after |-> text]
           h == Append(read.history, e)
<1>1. e \in Entry
  BY DEF Draft, Entry
<1>2. h \in Seq(Entry) /\ h[Len(h)] \in Entry
  BY <1>1 DEF Draft
<1>3. [cur.caption EXCEPT ![field] = text] \in [Fields -> Caption]
  BY DEF Draft
<1>4. Edited(cur, read, field, text) =
        [cur EXCEPT !.caption = [cur.caption EXCEPT ![field] = text], !.history = h]
  BY DEF Edited, Draft
<1> HIDE DEF h
<1>5. QED
  BY <1>2, <1>3, <1>4 DEF Draft, Last

-----------------------------------------------------------------------------
(* Types                                                                   *)

LEMMA TypeInit == Init => TypeOK
  BY SocialAssumption DEF Init, TypeOK, Idle

LEMMA Transitions ==
    ASSUME NEW s \in Statuses, NEW to \in AllowedTransitions[s]
    PROVE  /\ to \in Statuses \ {"pending"}
           /\ to = "published" => s = "approved"
<1>1. AllowedTransitions[s] =
        CASE s = "pending"  -> {"approved", "rejected", "skipped"}
          [] s = "approved" -> {"published"}
          [] OTHER          -> {}
  BY DEF AllowedTransitions
<1>2. CASE s = "pending"
  BY <1>1, <1>2 DEF Statuses
<1>3. CASE s = "approved"
  BY <1>1, <1>3 DEF Statuses
<1>4. CASE s \notin {"pending", "approved"}
  BY <1>1, <1>4
<1>5. QED
  BY <1>2, <1>3, <1>4

LEMMA ReadingFields ==
    ASSUME TypeOK, NEW h \in Handlers, handler[h].pc = "read"
    PROVE  /\ handler[h] \in Reading
           /\ handler[h].id \in DOMAIN rows /\ handler[h].id \in Ids
           /\ handler[h].row \in Draft /\ handler[h].req \in Requests
           /\ rows[handler[h].id] \in Draft
<1>1. handler[h] # Idle
  BY DEF Idle
<1>2. handler[h] \in Reading /\ handler[h].id \in DOMAIN rows
  BY <1>1 DEF TypeOK
<1>3. QED
  BY <1>2 DEF Reading, TypeOK

\* What an UPDATE does to the row it names.
LEMMA CommitFacts ==
    ASSUME TypeOK, NEW h \in Handlers, Commit(h)
    PROVE  LET id == handler[h].id
               req == handler[h].req
           IN /\ id \in DOMAIN rows /\ DOMAIN rows' = DOMAIN rows
              /\ rows'[id] \in Draft
              /\ \A i \in DOMAIN rows : i # id => rows'[i] = rows[i]
              /\ \/ /\ req.op = "move" /\ req.to \in Statuses
                    /\ rows'[id].status = req.to
                    /\ rows'[id].posted = (rows[id].posted \/ req.to = "published")
                    /\ approved' = IF req.to = "approved" THEN approved \cup {id} ELSE approved
                    /\ saved' = saved
                 \/ /\ rows'[id].status = rows[id].status
                    /\ rows'[id].posted = rows[id].posted
                    /\ approved' = approved
                    /\ saved' \in [Ids -> SUBSET Entry]
<1> DEFINE id == handler[h].id
           req == handler[h].req
           old == handler[h].row
<1>0. handler[h].pc = "read"
  BY DEF Commit
<1>1. /\ id \in DOMAIN rows /\ id \in Ids /\ old \in Draft /\ req \in Requests
      /\ rows[id] \in Draft /\ rows \in [DOMAIN rows -> Draft]
      /\ saved \in [Ids -> SUBSET Entry]
  BY <1>0, ReadingFields DEF TypeOK
<1>2. CASE /\ req.op = "move"
           /\ rows' = [rows EXCEPT ![id] = Moved(rows[id], req.to)]
           /\ approved' = IF req.to = "approved" THEN approved \cup {id} ELSE approved
           /\ UNCHANGED saved
  <2>1. req.to \in Statuses
    BY <1>1, <1>2 DEF Requests
  <2>2. /\ DOMAIN rows' = DOMAIN rows /\ rows'[id] = Moved(rows[id], req.to)
        /\ \A i \in DOMAIN rows : i # id => rows'[i] = rows[i]
    BY <1>1, <1>2
  <2>3. QED
    BY <1>1, <1>2, <2>1, <2>2, MovedFacts
<1>3. CASE /\ req.op = "edit"
           /\ rows' = [rows EXCEPT ![id] = Edited(rows[id], old, req.field, req.text)]
           /\ saved' = [saved EXCEPT ![id] = @ \cup {Last(rows'[id].history)}]
           /\ UNCHANGED approved
  <2>1. req.field \in Fields /\ req.text \in Caption
    BY <1>1, <1>3 DEF Requests
  <2>2. /\ DOMAIN rows' = DOMAIN rows
        /\ rows'[id] = Edited(rows[id], old, req.field, req.text)
        /\ \A i \in DOMAIN rows : i # id => rows'[i] = rows[i]
    BY <1>1, <1>3
  <2>3. /\ rows'[id] \in Draft /\ rows'[id].status = rows[id].status
        /\ rows'[id].posted = rows[id].posted /\ Last(rows'[id].history) \in Entry
    <3> DEFINE new == Edited(rows[id], old, req.field, req.text)
    <3>1. /\ new \in Draft /\ new.status = rows[id].status
          /\ new.posted = rows[id].posted /\ Last(new.history) \in Entry
      BY <1>1, <2>1, EditedFacts
    <3> HIDE DEF new
    <3>2. rows'[id] = new
      BY <2>2 DEF new
    <3>3. QED
      BY <3>1, <3>2
  <2>4. saved' \in [Ids -> SUBSET Entry]
    <3> DEFINE last == Last(rows'[id].history)
    <3>1. saved' = [saved EXCEPT ![id] = saved[id] \cup {last}] /\ last \in Entry
      BY <1>3, <2>3
    <3> HIDE DEF last
    <3>2. saved[id] \cup {last} \in SUBSET Entry
      BY <1>1, <3>1
    <3>3. QED
      BY <1>1, <3>1, <3>2
  <2>5. QED
    BY <1>1, <1>3, <2>2, <2>3, <2>4
<1>4. QED
  BY <1>2, <1>3 DEF Commit

LEMMA TypeDrafting ==
    ASSUME TypeOK, NEW d \in Drafters, DraftDaily(d)
    PROVE  TypeOK'
<1>1. ASSUME NEW m \in Picks, Select(d, m) PROVE TypeOK'
  <2>1. [pc |-> "rendering", id |-> <<today, m>>] \in Drafting
    BY DEF TypeOK, Drafting, Ids
  <2>2. QED
    BY <1>1, <2>1 DEF Select, TypeOK, history
<1>2. CASE Insert(d)
  <2> DEFINE id == drafter[d].id
  <2>1. drafter[d] \in Drafting /\ id \in Ids
    BY <1>2 DEF Insert, TypeOK, Idle, Drafting
  <2>2. CASE /\ ~Clashes(id)
             /\ rows' = [i \in DOMAIN rows \cup {id} |-> IF i = id THEN NewDraft ELSE rows[i]]
             /\ drafter' = [drafter EXCEPT ![d] = Idle]
    <3>1. /\ DOMAIN rows' = DOMAIN rows \cup {id}
          /\ rows' \in [DOMAIN rows' -> Draft]
      BY <2>2, NewDraftType DEF TypeOK
    <3>2. drafter' \in [Drafters -> {Idle} \cup Drafting]
      BY <2>2 DEF TypeOK
    <3>3. QED
      BY <1>2, <2>1, <3>1, <3>2 DEF Insert, TypeOK, history
  <2>3. CASE /\ Clashes(id)
             /\ drafter' = [drafter EXCEPT ![d] = [pc |-> "raised", id |-> id]]
             /\ UNCHANGED rows
    <3>1. [pc |-> "raised", id |-> id] \in Drafting
      BY <2>1 DEF Drafting
    <3>2. QED
      BY <1>2, <2>3, <3>1 DEF Insert, TypeOK, history
  <2>4. QED
    BY <1>2, <2>2, <2>3 DEF Insert
<1>3. CASE Exit(d)
  BY <1>3 DEF Exit, TypeOK, history
<1>4. QED
  BY <1>1, <1>2, <1>3 DEF DraftDaily

LEMMA TypeHandling ==
    ASSUME TypeOK, NEW h \in Handlers, Handling(h)
    PROVE  TypeOK'
<1>r. ASSUME NEW id \in DOMAIN rows, NEW req \in Requests, Read(h, id, req),
             edits' \in 0 .. MaxEdits
      PROVE  TypeOK'
  <2> DEFINE s == [pc |-> "read", id |-> id, req |-> req, row |-> rows[id]]
  <2>1. s \in Reading /\ s # Idle /\ s.id = id
    BY DEF TypeOK, Reading, Idle
  <2>2. handler' = [handler EXCEPT ![h] = s]
    BY <1>r DEF Read
  <2>3. /\ handler' \in [Handlers -> {Idle} \cup Reading]
        /\ \A g \in Handlers : handler'[g] = handler[g] \/ handler'[g] = s
    BY <2>1, <2>2 DEF TypeOK
  <2> HIDE DEF s
  <2>4. QED
    BY <1>r, <2>1, <2>3 DEF Read, TypeOK, history
<1>1. ASSUME NEW id \in DOMAIN rows, NEW to \in Statuses, RequestMove(h, id, to)
      PROVE  TypeOK'
  <2>1. rows[id].status \in Statuses
    BY DEF TypeOK, Draft
  <2>2. [op |-> "move", to |-> to] \in Requests
    BY <1>1, <2>1, Transitions DEF RequestMove, Requests
  <2>3. QED
    BY <1>1, <1>r, <2>2 DEF RequestMove, TypeOK
<1>2. ASSUME NEW id \in DOMAIN rows, NEW field \in Fields, RequestEdit(h, id, field)
      PROVE  TypeOK'
  <2>1. edits < MaxEdits /\ edits' = edits + 1 /\ edits \in 0 .. MaxEdits
    BY <1>2 DEF RequestEdit, TypeOK
  <2>2. edits' \in 0 .. MaxEdits /\ edits + 1 \in Caption
    BY <2>1, SocialAssumption DEF Caption
  <2>3. [op |-> "edit", field |-> field, text |-> edits + 1] \in Requests
    BY <2>2 DEF Requests
  <2>4. QED
    BY <1>2, <1>r, <2>2, <2>3 DEF RequestEdit
<1>3. ASSUME NEW id \in DOMAIN rows, Refuse(h, id) PROVE TypeOK'
  BY <1>3 DEF Refuse, vars, history, TypeOK
<1>4. CASE Commit(h)
  <2>1. /\ DOMAIN rows' = DOMAIN rows
        /\ \A i \in DOMAIN rows : rows'[i] \in Draft
        /\ handler[h].id \in DOMAIN rows
        /\ approved' \subseteq DOMAIN rows
        /\ saved' \in [Ids -> SUBSET Entry]
    BY <1>4, CommitFacts DEF TypeOK
  <2>2. rows' \in [DOMAIN rows' -> Draft]
    <3>1. rows' \in [DOMAIN rows' -> {rows'[i] : i \in DOMAIN rows'}]
      BY <1>4 DEF Commit, TypeOK
    <3>2. QED
      BY <2>1, <3>1
  <2>3. /\ handler' = [handler EXCEPT ![h] = Idle]
        /\ crossed' \subseteq crossed \cup {handler[h].id}
        /\ UNCHANGED <<today, drafter, edits>>
    BY <1>4 DEF Commit
  <2>4. /\ handler' \in [Handlers -> {Idle} \cup Reading]
        /\ \A g \in Handlers : handler'[g] = handler[g] \/ handler'[g] = Idle
    BY <2>3 DEF TypeOK
  <2>5. QED
    BY <2>1, <2>2, <2>3, <2>4 DEF TypeOK
<1>5. CASE Abort(h)
  BY <1>5 DEF Abort, TypeOK, history
<1>6. QED
  BY <1>1, <1>2, <1>3, <1>4, <1>5 DEF Handling

LEMMA TypeStep == TypeOK /\ [Next]_vars => TypeOK'
<1> SUFFICES ASSUME TypeOK, [Next]_vars PROVE TypeOK'
  OBVIOUS
<1>1. CASE \E d \in Drafters : DraftDaily(d)
  BY <1>1, TypeDrafting
<1>2. CASE \E h \in Handlers : Handling(h)
  BY <1>2, TypeHandling
<1>3. CASE Midnight
  <2>1. today' \in 1 .. MaxDay
    BY <1>3, SocialAssumption DEF Midnight, TypeOK
  <2>2. QED
    BY <1>3, <2>1 DEF Midnight, TypeOK, history
<1>4. CASE UNCHANGED vars
  BY <1>4 DEF vars, history, TypeOK
<1>5. QED
  BY <1>1, <1>2, <1>3, <1>4 DEF Next

\* The table only ever holds drafts in the statuses the routes know, and what
\* a request has in hand is a draft of the table.
THEOREM TypeCorrect == Spec => []TypeOK
  BY TypeInit, TypeStep, PTL DEF Spec

-----------------------------------------------------------------------------
(* A pick is posted once                                                   *)

OnePerPick == \A i, j \in DOMAIN rows : i[2] = j[2] => i = j

LEMMA OneStep == TypeOK /\ OnePerPick /\ [Next]_vars => OnePerPick'
<1> SUFFICES ASSUME TypeOK, OnePerPick, [Next]_vars PROVE OnePerPick'
  OBVIOUS
<1>1. ASSUME NEW d \in Drafters, DraftDaily(d) PROVE OnePerPick'
  <2>1. CASE rows' = rows
    BY <2>1 DEF OnePerPick
  <2>2. CASE /\ ~Clashes(drafter[d].id)
             /\ rows' = [i \in DOMAIN rows \cup {drafter[d].id} |->
                           IF i = drafter[d].id THEN NewDraft ELSE rows[i]]
    BY <2>2 DEF OnePerPick, Clashes
  <2>3. QED
    BY <1>1, <2>1, <2>2 DEF DraftDaily, Select, Insert, Exit
<1>2. ASSUME NEW h \in Handlers, Handling(h) PROVE OnePerPick'
  <2>1. DOMAIN rows' = DOMAIN rows
    BY <1>2, CommitFacts DEF Handling, RequestMove, RequestEdit, Read, Refuse, Abort, vars
  <2>2. QED
    BY <2>1 DEF OnePerPick
<1>3. CASE Midnight \/ UNCHANGED vars
  BY <1>3 DEF Midnight, vars, OnePerPick
<1>4. QED
  BY <1>1, <1>2, <1>3 DEF Next

\* No pick is posted twice, though drafters that run across midnight give the
\* same match two draft ids: the partial index admits one row per match.
THEOREM PickIsPostedOnce == Spec => []PostedOnce
<1>1. Init => OnePerPick
  BY DEF Init, OnePerPick
<1>2. OnePerPick => PostedOnce
  BY DEF OnePerPick, PostedOnce
<1>3. QED
  BY <1>1, <1>2, OneStep, TypeInit, TypeStep, PTL DEF Spec

-----------------------------------------------------------------------------
(* A post follows an approval                                              *)

\* A row that is approved or posted, and a row a request is about to report as
\* posted, was approved once; the request may find it in any status by now.
ApprovalInv ==
    /\ \A id \in DOMAIN rows :
         rows[id].status = "approved" \/ rows[id].posted => id \in approved
    /\ \A h \in Handlers :
         /\ handler[h].pc = "read"
         /\ handler[h].req.op = "move"
         /\ handler[h].req.to = "published"
         => handler[h].id \in approved

LEMMA ApprovalKept ==
    ASSUME ApprovalInv, rows' = rows, approved' = approved,
           \A h \in Handlers : handler'[h] = handler[h] \/ handler'[h].pc # "read"
    PROVE  ApprovalInv'
  BY DEF ApprovalInv

LEMMA ApprovalDrafting ==
    ASSUME TypeOK, ApprovalInv, NEW d \in Drafters, DraftDaily(d)
    PROVE  ApprovalInv'
<1>1. handler' = handler /\ approved' = approved
  BY DEF DraftDaily, Select, Insert, Exit, history
<1>2. CASE rows' = rows
  BY <1>1, <1>2, ApprovalKept
<1>3. CASE rows' = [i \in DOMAIN rows \cup {drafter[d].id} |->
                      IF i = drafter[d].id THEN NewDraft ELSE rows[i]]
  <2>1. NewDraft.status = "pending" /\ ~NewDraft.posted
    BY DEF NewDraft
  <2>2. QED
    BY <1>1, <1>3, <2>1 DEF ApprovalInv
<1>4. QED
  BY <1>2, <1>3 DEF DraftDaily, Select, Insert, Exit

LEMMA ApprovalHandling ==
    ASSUME TypeOK, ApprovalInv, NEW h \in Handlers, Handling(h)
    PROVE  ApprovalInv'
<1>h. handler \in [Handlers -> {Idle} \cup Reading]
  BY DEF TypeOK
<1>1. ASSUME NEW id \in DOMAIN rows, NEW to \in Statuses, RequestMove(h, id, to)
      PROVE  ApprovalInv'
  <2>1. /\ rows' = rows /\ approved' = approved
        /\ handler' = [handler EXCEPT ![h] =
             [pc |-> "read", id |-> id, req |-> [op |-> "move", to |-> to],
              row |-> rows[id]]]
    BY <1>1 DEF RequestMove, Read, history
  <2>2. to = "published" => rows[id].status = "approved"
    BY <1>1, Transitions DEF RequestMove, TypeOK, Draft
  <2>3. /\ handler'[h].id = id
        /\ handler'[h].req.to = to
        /\ \A g \in Handlers : g # h => handler'[g] = handler[g]
    BY <1>h, <2>1
  <2>4. QED
    BY <2>1, <2>2, <2>3 DEF ApprovalInv
<1>2. ASSUME NEW id \in DOMAIN rows, NEW field \in Fields, RequestEdit(h, id, field)
      PROVE  ApprovalInv'
  <2>1. /\ rows' = rows /\ approved' = approved
        /\ handler'[h].req.op = "edit"
        /\ \A g \in Handlers : g # h => handler'[g] = handler[g]
    BY <1>h, <1>2 DEF RequestEdit, Read, history
  <2>2. QED
    BY <2>1 DEF ApprovalInv
<1>3. ASSUME NEW id \in DOMAIN rows, Refuse(h, id) PROVE ApprovalInv'
  BY <1>3, ApprovalKept DEF Refuse, vars, history
<1>4. CASE Commit(h)
  <2> DEFINE id == handler[h].id
             req == handler[h].req
  <2>0. /\ handler[h].pc = "read"
        /\ \A g \in Handlers : handler'[g] = handler[g] \/ handler'[g].pc # "read"
    BY <1>h, <1>4 DEF Commit, Idle
  <2>1. /\ id \in DOMAIN rows /\ DOMAIN rows' = DOMAIN rows
        /\ \A i \in DOMAIN rows : i # id => rows'[i] = rows[i]
    BY <1>4, CommitFacts
  <2>2. CASE /\ req.op = "move"
             /\ rows'[id].status = req.to
             /\ rows'[id].posted = (rows[id].posted \/ req.to = "published")
             /\ approved' = IF req.to = "approved" THEN approved \cup {id} ELSE approved
    <3>1. approved \subseteq approved' /\ (req.to = "approved" => id \in approved')
      BY <2>2
    <3>2. req.to = "published" => id \in approved
      BY <2>0, <2>2 DEF ApprovalInv
    <3>3. rows'[id].status = "approved" \/ rows'[id].posted => id \in approved'
      BY <2>1, <2>2, <3>1, <3>2 DEF ApprovalInv
    <3>4. QED
      BY <2>0, <2>1, <3>1, <3>3 DEF ApprovalInv
  <2>3. CASE /\ rows'[id].status = rows[id].status
             /\ rows'[id].posted = rows[id].posted
             /\ approved' = approved
    BY <2>0, <2>1, <2>3 DEF ApprovalInv
  <2>4. QED
    BY <1>4, <2>2, <2>3, CommitFacts
<1>5. CASE Abort(h)
  <2>1. \A g \in Handlers : handler'[g] = handler[g] \/ handler'[g].pc # "read"
    BY <1>h, <1>5 DEF Abort, Idle
  <2>2. QED
    BY <1>5, <2>1, ApprovalKept DEF Abort, history
<1>6. QED
  BY <1>1, <1>2, <1>3, <1>4, <1>5 DEF Handling

LEMMA ApprovalStep == TypeOK /\ ApprovalInv /\ [Next]_vars => ApprovalInv'
<1> SUFFICES ASSUME TypeOK, ApprovalInv, [Next]_vars PROVE ApprovalInv'
  OBVIOUS
<1>1. CASE \E d \in Drafters : DraftDaily(d)
  BY <1>1, ApprovalDrafting
<1>2. CASE \E h \in Handlers : Handling(h)
  BY <1>2, ApprovalHandling
<1>3. CASE Midnight \/ UNCHANGED vars
  BY <1>3, ApprovalKept DEF Midnight, vars, history
<1>4. QED
  BY <1>1, <1>2, <1>3 DEF Next

\* Nothing is reported as posted that no operator approved, for any number of
\* requests that cross: the guard is read on an older row, but an approval,
\* once given, is never taken out of the history of a draft.
THEOREM PostFollowsApproval == Spec => []PostedWasApproved
<1>1. Init => ApprovalInv
  BY DEF Init, ApprovalInv, Idle
<1>2. ApprovalInv => PostedWasApproved
  BY DEF ApprovalInv, PostedWasApproved
<1>3. QED
  BY <1>1, <1>2, ApprovalStep, TypeInit, TypeStep, PTL DEF Spec

-----------------------------------------------------------------------------
(* A decided draft is closed                                               *)

\* Every request in hand passed its guard on the row it read.
GuardInv ==
    \A h \in Handlers : handler[h].pc = "read" => handler[h].row.status \notin Terminal

LEMMA OpenStatus ==
    ASSUME NEW s \in Statuses, NEW to \in AllowedTransitions[s]
    PROVE  s \notin Terminal
<1>1. AllowedTransitions[s] =
        CASE s = "pending"  -> {"approved", "rejected", "skipped"}
          [] s = "approved" -> {"published"}
          [] OTHER          -> {}
  BY DEF AllowedTransitions
<1>2. CASE s \in {"pending", "approved"}
  BY <1>2 DEF Terminal
<1>3. CASE s \notin {"pending", "approved"}
  BY <1>1, <1>3
<1>4. QED
  BY <1>2, <1>3

LEMMA GuardStep == TypeOK /\ GuardInv /\ [Next]_vars => GuardInv'
<1> SUFFICES ASSUME TypeOK, GuardInv, [Next]_vars PROVE GuardInv'
  OBVIOUS
<1>h. handler \in [Handlers -> {Idle} \cup Reading]
  BY DEF TypeOK
<1>1. CASE handler' = handler
  BY <1>1 DEF GuardInv
<1>2. ASSUME NEW h \in Handlers, handler' = [handler EXCEPT ![h] = Idle]
      PROVE  GuardInv'
  BY <1>h, <1>2 DEF GuardInv, Idle
<1>3. ASSUME NEW h \in Handlers, NEW id \in DOMAIN rows, NEW req,
             Read(h, id, req), rows[id].status \notin Terminal
      PROVE  GuardInv'
  <2> DEFINE s == [pc |-> "read", id |-> id, req |-> req, row |-> rows[id]]
  <2>1. s.row.status \notin Terminal
    BY <1>3
  <2>2. \A g \in Handlers : handler'[g] = handler[g] \/ handler'[g] = s
    BY <1>h, <1>3 DEF Read
  <2> HIDE DEF s
  <2>3. QED
    BY <2>1, <2>2 DEF GuardInv
<1>4. CASE \E d \in Drafters : DraftDaily(d)
  BY <1>1, <1>4 DEF DraftDaily, Select, Insert, Exit
<1>5. ASSUME NEW h \in Handlers, Handling(h) PROVE GuardInv'
  <2>1. ASSUME NEW id \in DOMAIN rows, NEW to \in Statuses, RequestMove(h, id, to)
        PROVE  GuardInv'
    <3>1. rows[id].status \in Statuses
      BY DEF TypeOK, Draft
    <3>2. QED
      BY <1>3, <2>1, <3>1, OpenStatus DEF RequestMove
  <2>2. ASSUME NEW id \in DOMAIN rows, NEW field \in Fields, RequestEdit(h, id, field)
        PROVE  GuardInv'
    BY <1>3, <2>2 DEF RequestEdit
  <2>3. ASSUME NEW id \in DOMAIN rows, Refuse(h, id) PROVE GuardInv'
    BY <1>1, <2>3 DEF Refuse, vars
  <2>4. CASE Commit(h) \/ Abort(h)
    BY <1>2, <2>4 DEF Commit, Abort
  <2>5. QED
    BY <1>5, <2>1, <2>2, <2>3, <2>4 DEF Handling
<1>6. CASE Midnight \/ UNCHANGED vars
  BY <1>1, <1>6 DEF Midnight, vars
<1>7. QED
  BY <1>4, <1>5, <1>6 DEF Next

\* What a step does to the rows there are.
LEMMA FrozenStep ==
    ASSUME TypeOK, GuardInv, [Next]_vars,
           NEW id \in DOMAIN rows, id \notin crossed', rows[id].status \in Terminal
    PROVE  rows'[id] = rows[id]
<1>1. CASE rows' = rows
  BY <1>1
<1>2. ASSUME NEW d \in Drafters, DraftDaily(d) PROVE rows'[id] = rows[id]
  <2>1. ASSUME NEW i, ~Clashes(i),
               rows' = [j \in DOMAIN rows \cup {i} |-> IF j = i THEN NewDraft ELSE rows[j]]
        PROVE  rows'[id] = rows[id]
    <3>1. id # i
      BY <2>1 DEF Clashes
    <3>2. QED
      BY <2>1, <3>1
  <2>2. QED
    BY <1>1, <1>2, <2>1 DEF DraftDaily, Select, Insert, Exit
<1>3. ASSUME NEW h \in Handlers, Commit(h) PROVE rows'[id] = rows[id]
  <2>1. handler[h].pc = "read" /\ handler[h].row.status \notin Terminal
    BY <1>3 DEF Commit, GuardInv
  <2>2. CASE id = handler[h].id
    <3>1. rows[id] = handler[h].row
      BY <1>3, <2>2 DEF Commit
    <3>2. QED
      BY <2>1, <3>1
  <2>3. CASE id # handler[h].id
    BY <1>3, <2>3, CommitFacts
  <2>4. QED
    BY <2>2, <2>3
<1>4. ASSUME NEW h \in Handlers, Handling(h) PROVE rows'[id] = rows[id]
  BY <1>1, <1>3, <1>4
     DEF Handling, RequestMove, RequestEdit, Read, Refuse, Abort, vars
<1>5. CASE Midnight \/ UNCHANGED vars
  BY <1>1, <1>5 DEF Midnight, vars
<1>6. QED
  BY <1>2, <1>4, <1>5 DEF Next

\* A draft that was rejected, skipped or posted never changes again, unless
\* two requests crossed on it: a request that finds the row as it read it has
\* passed its guard on a row that was still open.
THEOREM DecidedStaysDecided == Spec => TerminalRowIsFrozen
<1>1. Init => GuardInv
  BY DEF Init, GuardInv, Idle
<1>2. TypeOK /\ GuardInv /\ [Next]_vars =>
        [\A id \in DOMAIN rows \ crossed' :
           rows[id].status \in Terminal => rows'[id] = rows[id]]_vars
  BY FrozenStep
<1>3. QED
  BY <1>1, <1>2, GuardStep, TypeInit, TypeStep, PTL DEF Spec, TerminalRowIsFrozen

-----------------------------------------------------------------------------
(* The history of the edits                                                *)

\* No edit is answered for a draft that does not exist.
EditInv ==
    /\ EveryEditRecorded
    /\ \A id \in Ids : id \notin DOMAIN rows => saved[id] = {}

LEMMA AppendFacts ==
    ASSUME NEW S, NEW s \in Seq(S), NEW e \in S
    PROVE  /\ ToSet(Append(s, e)) = ToSet(s) \cup {e}
           /\ Last(Append(s, e)) = e
<1>1. /\ Len(s) \in Nat /\ Len(Append(s, e)) = Len(s) + 1
      /\ DOMAIN s = 1 .. Len(s) /\ DOMAIN Append(s, e) = 1 .. Len(s) + 1
      /\ Append(s, e)[Len(s) + 1] = e
      /\ \A i \in 1 .. Len(s) : Append(s, e)[i] = s[i]
  OBVIOUS
<1>2. 1 .. Len(s) + 1 = (1 .. Len(s)) \cup {Len(s) + 1}
  BY <1>1
<1>3. QED
  BY <1>1, <1>2 DEF ToSet, Last

\* What a commit does to the history of the row it names.
LEMMA CommitHistory ==
    ASSUME TypeOK, NEW h \in Handlers, Commit(h)
    PROVE  LET id == handler[h].id
           IN \/ /\ rows'[id].history = rows[id].history
                 /\ saved' = saved
              \/ /\ \A i \in Ids : i # id => saved'[i] = saved[i]
                 /\ \E e : /\ saved'[id] = saved[id] \cup {e}
                          /\ ToSet(rows'[id].history)
                               = ToSet(handler[h].row.history) \cup {e}
<1> DEFINE id == handler[h].id
           req == handler[h].req
           old == handler[h].row
<1>0. handler[h].pc = "read"
  BY DEF Commit
<1>1. /\ id \in DOMAIN rows /\ id \in Ids /\ old \in Draft /\ req \in Requests
      /\ rows[id] \in Draft /\ rows \in [DOMAIN rows -> Draft]
      /\ saved \in [Ids -> SUBSET Entry]
  BY <1>0, ReadingFields DEF TypeOK
<1>2. CASE /\ req.op = "move"
           /\ rows' = [rows EXCEPT ![id] = Moved(rows[id], req.to)]
           /\ UNCHANGED saved
  <2>1. rows'[id] = Moved(rows[id], req.to)
    BY <1>1, <1>2
  <2>2. Moved(rows[id], req.to).history = rows[id].history
    BY <1>1 DEF Moved, Draft
  <2>3. QED
    BY <1>2, <2>1, <2>2
<1>3. CASE /\ req.op = "edit"
           /\ rows' = [rows EXCEPT ![id] = Edited(rows[id], old, req.field, req.text)]
           /\ saved' = [saved EXCEPT ![id] = @ \cup {Last(rows'[id].history)}]
  <2> DEFINE e == [field |-> req.field, before |-> old.caption[req.field],
                   after |-> req.text]
  <2>1. req.field \in Fields /\ req.text \in Caption
    BY <1>1, <1>3 DEF Requests
  <2>2. e \in Entry /\ old.history \in Seq(Entry)
    BY <1>1, <2>1 DEF Draft, Entry
  <2>3. rows'[id].history = Append(old.history, e)
    <3>1. rows'[id] = Edited(rows[id], old, req.field, req.text)
      BY <1>1, <1>3
    <3>2. Edited(rows[id], old, req.field, req.text).history = Append(old.history, e)
      BY <1>1 DEF Edited, Draft
    <3>3. QED
      BY <3>1, <3>2
  <2> HIDE DEF e
  <2>4. /\ ToSet(rows'[id].history) = ToSet(old.history) \cup {e}
        /\ Last(rows'[id].history) = e
    BY <2>2, <2>3, AppendFacts
  <2>5. /\ saved'[id] = saved[id] \cup {e}
        /\ \A i \in Ids : i # id => saved'[i] = saved[i]
    BY <1>1, <1>3, <2>4
  <2>6. QED
    BY <2>4, <2>5
<1>4. QED
  BY <1>2, <1>3 DEF Commit

LEMMA EditStep == TypeOK /\ EditInv /\ [Next]_vars => EditInv'
<1> SUFFICES ASSUME TypeOK, EditInv, [Next]_vars PROVE EditInv'
  OBVIOUS
<1>t. DOMAIN rows \subseteq Ids
  BY DEF TypeOK
<1>1. CASE rows' = rows /\ saved' = saved /\ crossed' = crossed
  BY <1>1 DEF EditInv, EveryEditRecorded
<1>2. ASSUME NEW d \in Drafters, DraftDaily(d) PROVE EditInv'
  <2>1. saved' = saved /\ crossed' = crossed
    BY <1>2 DEF DraftDaily, Select, Insert, Exit, history
  <2>2. ASSUME NEW i \in Ids, ~Clashes(i),
               rows' = [j \in DOMAIN rows \cup {i} |-> IF j = i THEN NewDraft ELSE rows[j]]
        PROVE  EditInv'
    <3>1. i \notin DOMAIN rows /\ saved[i] = {}
      BY <2>2 DEF Clashes, EditInv
    <3>2. QED
      BY <2>1, <2>2, <3>1 DEF EditInv, EveryEditRecorded
  <2>3. CASE Insert(d)
    <3>1. drafter[d].id \in Ids
      BY <2>3 DEF Insert, TypeOK, Idle, Drafting
    <3>2. QED
      BY <1>1, <2>1, <2>2, <2>3, <3>1 DEF Insert
  <2>4. QED
    BY <1>1, <1>2, <2>1, <2>3 DEF DraftDaily, Select, Exit
<1>3. ASSUME NEW h \in Handlers, Commit(h) PROVE EditInv'
  <2> DEFINE id == handler[h].id
  <2>1. /\ id \in DOMAIN rows /\ DOMAIN rows' = DOMAIN rows
        /\ \A i \in DOMAIN rows : i # id => rows'[i] = rows[i]
    BY <1>3, CommitFacts
  <2>2. crossed' = IF rows[id] = handler[h].row THEN crossed ELSE crossed \cup {id}
    BY <1>3 DEF Commit
  <2>3. CASE rows'[id].history = rows[id].history /\ saved' = saved
    BY <2>1, <2>2, <2>3 DEF EditInv, EveryEditRecorded
  <2>4. ASSUME NEW e, saved'[id] = saved[id] \cup {e},
               \A i \in Ids : i # id => saved'[i] = saved[i],
               ToSet(rows'[id].history) = ToSet(handler[h].row.history) \cup {e}
        PROVE  EditInv'
    <3>1. id \notin crossed' => saved'[id] \subseteq ToSet(rows'[id].history)
      BY <2>1, <2>2, <2>4 DEF EditInv, EveryEditRecorded
    <3>2. \A i \in DOMAIN rows \ crossed' :
            i # id => saved'[i] \subseteq ToSet(rows'[i].history)
      BY <1>t, <2>1, <2>2, <2>4 DEF EditInv, EveryEditRecorded
    <3>3. \A i \in Ids : i \notin DOMAIN rows' => saved'[i] = {}
      BY <2>1, <2>4 DEF EditInv
    <3>4. QED
      BY <2>1, <3>1, <3>2, <3>3 DEF EditInv, EveryEditRecorded
  <2>5. QED
    BY <1>3, <2>3, <2>4, CommitHistory
<1>4. ASSUME NEW h \in Handlers, Handling(h) PROVE EditInv'
  BY <1>1, <1>3, <1>4
     DEF Handling, RequestMove, RequestEdit, Read, Refuse, Abort, vars, history
<1>5. CASE Midnight \/ UNCHANGED vars
  BY <1>1, <1>5 DEF Midnight, vars, history
<1>6. QED
  BY <1>2, <1>4, <1>5 DEF Next

\* An edit that was answered with 200 is in the history of its draft for good,
\* unless two requests crossed on it: the history that is written is the one
\* that was read, and one entry.
THEOREM HistoryIsComplete == Spec => []EveryEditRecorded
<1>1. Init => EditInv
  BY DEF Init, EditInv, EveryEditRecorded
<1>2. EditInv => EveryEditRecorded
  BY DEF EditInv
<1>3. QED
  BY <1>1, <1>2, EditStep, TypeInit, TypeStep, PTL DEF Spec

-----------------------------------------------------------------------------
(* The calendar of the weekly roundup (Week)                               *)


\* Division by a positive number, and by seven.
LEMMA Days ==
    ASSUME NEW t \in Nat, NEW d \in Nat \ {0}
    PROVE  /\ t \div d \in Nat
           /\ (t \div d) * d <= t /\ t < (t \div d) * d + d
  <1>1. t \div d \in Nat /\ t % d \in 0 .. d - 1 /\ t = d * (t \div d) + (t % d)
    BY SMT
  <1>2. d * (t \div d) = (t \div d) * d
    BY <1>1, SMT
  <1>3. (t \div d) * d \in Nat
    BY <1>1, SMT
  <1> QED
    BY <1>1, <1>2, <1>3

\* Where t lies in its week.
LEMMA InItsWeek ==
    ASSUME WeekAssumption, NEW t \in Nat
    PROVE  \E k \in Nat, w \in 0 .. 6, r \in 0 .. Day - 1 :
             /\ Today(t) = 7 * k + w /\ Weekday(t) = w
             /\ t = k * WeekLen + w * Day + r
  <1> DEFINE q == t \div Day
             k == q \div 7
             w == q % 7
             r == t - q * Day
  <1>1. Day \in Nat \ {0}
    BY DEF WeekAssumption
  <1>2. q \in Nat /\ q * Day <= t /\ t < q * Day + Day
    BY <1>1, Days
  <1>3. k \in Nat /\ w \in 0 .. 6 /\ q = 7 * k + w
    BY <1>2
  <1>4. q * Day \in Nat /\ k * Day \in Nat /\ w * Day \in Nat
    BY <1>1, <1>2, <1>3, SMT
  <1>5. q * Day = k * WeekLen + w * Day
    <2>1. (7 * k + w) * Day = k * (7 * Day) + w * Day
      BY <1>1, <1>3, SMT
    <2> QED
      BY <1>3, <2>1 DEF WeekLen
  <1>6. r \in 0 .. Day - 1
    BY <1>1, <1>2, <1>4
  <1>7. Today(t) = 7 * k + w /\ Weekday(t) = w
    BY <1>3 DEF Today, Weekday
  <1>8. t = k * WeekLen + w * Day + r
    BY <1>4, <1>5
  <1> QED
    BY <1>3, <1>6, <1>7, <1>8

\* A number of days below seven fits into a week.
LEMMA DayOfWeek ==
    ASSUME WeekAssumption, NEW w \in 0 .. 6
    PROVE  w * Day \in Nat /\ w * Day + Day <= WeekLen
  <1>1. Day \in Nat \ {0}
    BY DEF WeekAssumption
  <1>2. w \in {0, 1, 2, 3, 4, 5, 6}
    OBVIOUS
  <1> QED
    BY <1>1, <1>2 DEF WeekLen

\* The roundup covers a whole week, from Monday to Sunday: the one before the week it is
\* drafted in.
THEOREM WindowIsTheWeekBefore ==
    ASSUME WeekAssumption, NEW t \in Nat
    PROVE  \E k \in Nat :
             /\ k * WeekLen <= t /\ t < k * WeekLen + WeekLen
             /\ WindowStart(t) = k * WeekLen - WeekLen
             /\ WindowEnd(t) = k * WeekLen - Second
  <1>1. PICK k \in Nat, w \in 0 .. 6, r \in 0 .. Day - 1 :
               /\ Today(t) = 7 * k + w /\ Weekday(t) = w
               /\ t = k * WeekLen + w * Day + r
    BY InItsWeek
  <1>2. Day \in Nat \ {0} /\ WeekLen \in Nat /\ Second \in Nat
    BY DEF WeekAssumption, WeekLen
  <1>3. w * Day \in Nat /\ w * Day + Day <= WeekLen /\ k * WeekLen \in Nat
    BY <1>2, DayOfWeek, SMT
  <1>4. k * WeekLen <= t /\ t < k * WeekLen + WeekLen
    BY <1>1, <1>2, <1>3
  <1>5. WindowStart(t) = k * WeekLen - WeekLen
    <2>1. Today(t) - (Weekday(t) + 7) = 7 * k - 7
      BY <1>1
    <2>2. (7 * k - 7) * Day = k * (7 * Day) - 7 * Day
      BY <1>2, SMT
    <2> QED
      BY <2>1, <2>2 DEF WindowStart, WeekLen
  <1>6. WindowEnd(t) = k * WeekLen - Second
    BY <1>2, <1>3, <1>5 DEF WindowEnd
  <1> QED
    BY <1>4, <1>5, <1>6

\* Two multiples of the week that lie within a week of one another are the same.
LEMMA OneWeek ==
    ASSUME WeekAssumption, NEW k \in Nat, NEW j \in Nat, NEW t \in Nat,
           k * WeekLen <= t, t < k * WeekLen + WeekLen,
           j * WeekLen <= t, t < j * WeekLen + WeekLen
    PROVE  k = j
  <1>1. WeekLen \in Nat \ {0}
    BY DEF WeekAssumption, WeekLen
  <1>2. \A a \in Nat, b \in Nat : a < b => a * WeekLen + WeekLen <= b * WeekLen
    <2>1. TAKE a \in Nat, b \in Nat
    <2>2. HAVE a < b
    <2>3. PICK c \in Nat : b = a + 1 + c
      <3>1. b - a - 1 \in Nat /\ b = a + 1 + (b - a - 1)
        BY <2>2
      <3> QED
        BY <3>1
    <2>4. (a + 1 + c) * WeekLen = a * WeekLen + WeekLen + c * WeekLen
      BY <1>1, SMT
    <2>5. a * WeekLen \in Nat /\ c * WeekLen \in Nat
      BY <1>1, SMT
    <2> QED
      BY <1>1, <2>3, <2>4, <2>5
  <1>3. k * WeekLen \in Nat /\ j * WeekLen \in Nat
    BY <1>1, SMT
  <1>4. ~(k < j) /\ ~(j < k)
    BY <1>1, <1>2, <1>3
  <1> QED
    BY <1>4

\* The loop fires at the next of its hours: always ahead, and within a week.
THEOREM NextFireIsAhead ==
    ASSUME WeekAssumption, NEW t \in Nat
    PROVE  /\ t < NextFire(t) /\ NextFire(t) <= t + WeekLen
           /\ \E k \in Nat : NextFire(t) = k * WeekLen + FireDay * Day + FireAt
  <1>1. PICK k \in Nat, w \in 0 .. 6, r \in 0 .. Day - 1 :
               /\ Today(t) = 7 * k + w /\ Weekday(t) = w
               /\ t = k * WeekLen + w * Day + r
    BY InItsWeek
  <1>2. /\ Day \in Nat \ {0} /\ WeekLen \in Nat /\ FireDay \in 0 .. 6
        /\ FireAt \in Nat /\ FireAt < Day
    BY DEF WeekAssumption, WeekLen
  <1>3. /\ k * WeekLen \in Nat
        /\ w * Day \in Nat /\ w * Day + Day <= WeekLen
        /\ FireDay * Day \in Nat /\ FireDay * Day + Day <= WeekLen
    BY <1>2, DayOfWeek, SMT
  <1>4. (k + 1) * WeekLen = k * WeekLen + WeekLen
    BY <1>2, SMT
  <1>5. CASE w <= FireDay
    <2>1. Today(t) + ((FireDay - w) % 7) = 7 * k + FireDay
      BY <1>1, <1>2, <1>5
    <2>2. (7 * k + FireDay) * Day = k * (7 * Day) + FireDay * Day
      BY <1>2, SMT
    <2>3. Candidate(t) = k * WeekLen + FireDay * Day + FireAt
      BY <1>1, <2>1, <2>2 DEF Candidate, WeekLen
    <2>4. w * Day <= FireDay * Day
      <3>1. FireDay = w + (FireDay - w) /\ FireDay - w \in Nat
        BY <1>2, <1>5
      <3>2. (w + (FireDay - w)) * Day = w * Day + (FireDay - w) * Day
        BY <1>2, <3>1, SMT
      <3>3. (FireDay - w) * Day \in Nat
        BY <1>2, <3>1, SMT
      <3> QED
        BY <1>3, <3>1, <3>2, <3>3
    <2>5. CASE Candidate(t) <= t
      <3>1. NextFire(t) = (k + 1) * WeekLen + FireDay * Day + FireAt
        BY <1>2, <1>3, <1>4, <2>3, <2>5 DEF NextFire
      <3>2. t < NextFire(t) /\ NextFire(t) <= t + WeekLen
        BY <1>1, <1>2, <1>3, <1>4, <2>3, <2>5, <3>1
      <3> QED
        BY <3>1, <3>2
    <2>6. CASE ~(Candidate(t) <= t)
      <3>1. NextFire(t) = k * WeekLen + FireDay * Day + FireAt
        BY <2>3, <2>6 DEF NextFire
      <3>2. t < NextFire(t) /\ NextFire(t) <= t + WeekLen
        BY <1>1, <1>2, <1>3, <2>3, <2>6, <3>1
      <3> QED
        BY <3>1, <3>2
    <2> QED
      BY <2>5, <2>6
  <1>6. CASE FireDay < w
    <2>1. Today(t) + ((FireDay - w) % 7) = 7 * k + FireDay + 7
      BY <1>1, <1>2, <1>6
    <2>2. (7 * k + FireDay + 7) * Day = k * (7 * Day) + FireDay * Day + 7 * Day
      BY <1>2, SMT
    <2>3. Candidate(t) = (k + 1) * WeekLen + FireDay * Day + FireAt
      BY <1>1, <1>2, <1>3, <1>4, <2>1, <2>2 DEF Candidate, WeekLen
    <2>4. FireDay * Day + Day <= w * Day
      <3>1. w = FireDay + 1 + (w - FireDay - 1) /\ w - FireDay - 1 \in Nat
        BY <1>2, <1>6
      <3>2. (FireDay + 1 + (w - FireDay - 1)) * Day
              = FireDay * Day + Day + (w - FireDay - 1) * Day
        BY <1>2, <3>1, SMT
      <3>3. (w - FireDay - 1) * Day \in Nat
        BY <1>2, <3>1, SMT
      <3> QED
        BY <1>2, <1>3, <3>1, <3>2, <3>3
    <2>5. t < Candidate(t)
      BY <1>1, <1>2, <1>3, <1>4, <2>3
    <2>6. NextFire(t) = Candidate(t)
      BY <1>1, <1>2, <1>3, <1>4, <2>3, <2>5 DEF NextFire
    <2>7. NextFire(t) <= t + WeekLen
      BY <1>1, <1>2, <1>3, <1>4, <2>3, <2>4, <2>6
    <2> QED
      BY <2>3, <2>5, <2>6, <2>7
  <1> QED
    BY <1>1, <1>2, <1>5, <1>6

\* The sleep is cut to whole seconds, so the loop may wake within the second before its hour,
\* draft, and wake again at the hour: unless that is Monday at midnight both draft the same
\* week, and has_weekly_for and uq_weekly turn the second away.
THEOREM EarlyWakeIsTheSameWeek ==
    ASSUME WeekAssumption, NEW t \in Nat, Second <= FireDay * Day + FireAt
    PROVE  /\ NextFire(t) - Second < t + SleepLen(t)
           /\ t + SleepLen(t) < NextFire(t) + Second
           /\ WindowStart(t + SleepLen(t)) = WindowStart(NextFire(t))
  <1> DEFINE n == NextFire(t)
             q == (n - t) \div Second
             w == t + SleepLen(t)
  <1>1. PICK k \in Nat : n = k * WeekLen + FireDay * Day + FireAt
    BY NextFireIsAhead
  <1>2. /\ Day \in Nat \ {0} /\ WeekLen \in Nat /\ FireDay \in 0 .. 6
        /\ Second \in Nat \ {0} /\ FireAt \in Nat /\ FireAt + Second <= Day
    BY DEF WeekAssumption, WeekLen
  <1>3. /\ k * WeekLen \in Nat
        /\ FireDay * Day \in Nat /\ FireDay * Day + Day <= WeekLen
    BY <1>2, DayOfWeek, SMT
  <1>4. n \in Nat /\ n - t \in Nat /\ t < n
    BY <1>1, <1>2, <1>3, NextFireIsAhead
  <1>5. q \in Nat /\ q * Second <= n - t /\ n - t < q * Second + Second
    BY <1>2, <1>4, Days
  <1>6. w \in Nat /\ n - Second < w /\ w < n + Second
    <2>1. CASE q > 1
      <3>1. w = t + q * Second
        BY <2>1 DEF SleepLen
      <3>2. q * Second \in Nat
        BY <1>2, <1>5, SMT
      <3> QED
        BY <1>2, <1>4, <1>5, <3>1, <3>2
    <2>2. CASE ~(q > 1)
      <3>1. w = t + Second
        <4>1. SleepLen(t) = 1 * Second
          BY <2>2 DEF SleepLen
        <4> QED
          BY <1>2, <4>1
      <3>2. q = 0 \/ q = 1
        BY <1>5, <2>2
      <3>3. q * Second <= Second
        BY <1>2, <3>2
      <3>4. q * Second \in Nat
        BY <1>2, <1>5, SMT
      <3> QED
        BY <1>2, <1>4, <1>5, <3>1, <3>3, <3>4
    <2> QED
      BY <2>1, <2>2
  <1>7. k * WeekLen <= w /\ w < k * WeekLen + WeekLen
    BY <1>1, <1>2, <1>3, <1>6
  <1>8. k * WeekLen <= n /\ n < k * WeekLen + WeekLen
    BY <1>1, <1>2, <1>3
  <1>9. ASSUME NEW u \in Nat, k * WeekLen <= u, u < k * WeekLen + WeekLen
        PROVE  WindowStart(u) = k * WeekLen - WeekLen
    <2>1. PICK j \in Nat : /\ j * WeekLen <= u /\ u < j * WeekLen + WeekLen
                           /\ WindowStart(u) = j * WeekLen - WeekLen
      BY WindowIsTheWeekBefore
    <2>2. j = k
      BY <1>9, <2>1, OneWeek
    <2> QED
      BY <2>1, <2>2
  <1>10. WindowStart(w) = WindowStart(n)
    BY <1>4, <1>6, <1>7, <1>8, <1>9
  <1> QED
    BY <1>6, <1>10

\* "every MatchOutput published in the last 7 days": at the loop's hour the window has been
\* over for as long as the week is old. On a Sunday no match of the last six days is in it.
THEOREM WindowIsOverForDays ==
    ASSUME WeekAssumption, NEW t \in Nat, NEW ko \in Int, InWindow(ko, NextFire(t))
    PROVE  NextFire(t) - ko >= FireDay * Day + FireAt + Second
  <1> DEFINE n == NextFire(t)
  <1>1. PICK k \in Nat : n = k * WeekLen + FireDay * Day + FireAt
    BY NextFireIsAhead
  <1>2. /\ Day \in Nat \ {0} /\ WeekLen \in Nat /\ FireDay \in 0 .. 6
        /\ Second \in Nat \ {0} /\ FireAt \in Nat /\ FireAt + Second <= Day
    BY DEF WeekAssumption, WeekLen
  <1>3. /\ k * WeekLen \in Nat
        /\ FireDay * Day \in Nat /\ FireDay * Day + Day <= WeekLen
    BY <1>2, DayOfWeek, SMT
  <1>4. n \in Nat /\ k * WeekLen <= n /\ n < k * WeekLen + WeekLen
    BY <1>1, <1>2, <1>3
  <1>5. PICK j \in Nat : /\ j * WeekLen <= n /\ n < j * WeekLen + WeekLen
                         /\ WindowEnd(n) = j * WeekLen - Second
    BY <1>4, WindowIsTheWeekBefore
  <1>6. j = k
    BY <1>4, <1>5, OneWeek
  <1>7. ko <= k * WeekLen - Second
    BY <1>5, <1>6 DEF InWindow
  <1> QED
    BY <1>1, <1>2, <1>3, <1>7

\* A week later the roundup takes up in the second after the last one: nothing that kicks off
\* on a whole second is left out, or counted twice, by a loop that misses no week.
THEOREM WindowsTile ==
    ASSUME WeekAssumption, NEW t \in Nat
    PROVE  WindowStart(t + WeekLen) = WindowEnd(t) + Second
  <1>1. WeekLen \in Nat \ {0} /\ Second \in Nat
    BY DEF WeekAssumption, WeekLen
  <1>2. PICK k \in Nat : /\ k * WeekLen <= t /\ t < k * WeekLen + WeekLen
                         /\ WindowEnd(t) = k * WeekLen - Second
    BY WindowIsTheWeekBefore
  <1>3. PICK j \in Nat : /\ j * WeekLen <= t + WeekLen /\ t + WeekLen < j * WeekLen + WeekLen
                         /\ WindowStart(t + WeekLen) = j * WeekLen - WeekLen
    <2>1. t + WeekLen \in Nat
      BY <1>1
    <2> QED
      BY <2>1, WindowIsTheWeekBefore
  <1>4. (k + 1) * WeekLen = k * WeekLen + WeekLen /\ k * WeekLen \in Nat
    BY <1>1, SMT
  <1>5. j = k + 1
    <2>1. t + WeekLen \in Nat /\ k + 1 \in Nat
      BY <1>1
    <2>2. (k + 1) * WeekLen <= t + WeekLen /\ t + WeekLen < (k + 1) * WeekLen + WeekLen
      BY <1>1, <1>2, <1>4
    <2> QED
      BY <1>3, <2>1, <2>2, OneWeek
  <1> QED
    BY <1>1, <1>2, <1>3, <1>4, <1>5
-----------------------------------------------------------------------------
(* Votes and views of readers                                                *)

\* A vote that was ever cast is never no vote again, a lock is on a vote, and a request
\* about to change or to lock a row has seen it old enough for that.
VoteRowsInv ==
    /\ row \in [Fixtures -> [age : Act!VoteAges, locked : BOOLEAN]]
    /\ request \in [Voters -> [pc : {"idle", "count", "read", "insert", "lock", "flip"},
                               match : Fixtures, saw : Act!VoteAges]]
    /\ \A m \in Fixtures : row[m].locked => row[m].age # "none"
    /\ \A r \in Voters :
         /\ request[r].pc \in {"lock", "flip"} => row[request[r].match].age # "none"
         /\ request[r].pc = "flip" => request[r].saw = "open"

LEMMA AgeFields ==
    ASSUME VoteRowsInv
    PROVE  /\ \A m \in Fixtures : /\ row[m].age \in {"none", "cooling", "open", "old"}
                                  /\ row[m].locked \in BOOLEAN
           /\ \A r \in Voters :
                /\ request[r].pc \in {"idle", "count", "read", "insert", "lock", "flip"}
                /\ request[r].match \in Fixtures
                /\ request[r].saw \in {"none", "cooling", "open", "old"}
  BY DEF VoteRowsInv, Act!VoteAges

LEMMA VoteRowsInit == Act!Init => VoteRowsInv
<1>1. Seeded \in Fixtures
  BY AudienceAssumption DEF Act!ActivityAssumption
<1>2. QED
  BY <1>1 DEF VoteRowsInv, Act!Init, Act!Idle, Act!VoteAges

\* What the steps of a request, and time, do to the visitor's rows.
Asks(r) ==
    /\ row' = row
    /\ \E m \in Fixtures :
         request' = [request EXCEPT ![r] = [pc |-> "count", match |-> m, saw |-> "none"]]

Counts(r) ==
    /\ request[r].pc = "count" /\ row' = row
    /\ \/ request' = [request EXCEPT ![r] = Act!Idle]
       \/ ~Act!TooMany /\ request' = [request EXCEPT ![r].pc = "read"]

Reads(r) ==
    LET seen == row[request[r].match].age IN
    /\ request[r].pc = "read" /\ row' = row
    /\ \/ request' = [request EXCEPT ![r] = Act!Idle]
       \/ \E pc \in {"insert", "lock", "flip"} :
            /\ request' = [request EXCEPT ![r].pc = pc, ![r].saw = seen]
            /\ pc \in {"lock", "flip"} => seen # "none"
            /\ pc = "flip" => seen = "open"

Writes(r) ==
    LET m == request[r].match IN
    /\ request[r].pc \in {"insert", "lock", "flip"}
    /\ request' = [request EXCEPT ![r] = Act!Idle]
    /\ \/ request[r].pc = "insert" /\ row' = row
       \/ request[r].pc = "insert" /\ row[m].age = "none" /\ row' = [row EXCEPT ![m].age = "cooling"]
       \/ request[r].pc = "lock" /\ row' = [row EXCEPT ![m].locked = TRUE]
       \/ request[r].pc = "flip" /\ row' = [row EXCEPT ![m].age = "cooling"]

Ages(m) ==
    /\ request' = request
    /\ \/ row[m].age = "cooling" /\ row' = [row EXCEPT ![m].age = "open"]
       \/ row[m].age = "open" /\ row' = [row EXCEPT ![m].age = "old"]

LEMMA VoteSteps ==
    ASSUME VoteRowsInv, Act!Next
    PROVE  \/ row' = row /\ request' = request
           \/ \E r \in Voters : Asks(r) \/ Counts(r) \/ Reads(r) \/ Writes(r)
           \/ \E m \in Fixtures : Ages(m)
<1>1. CASE \E r \in Voters : \E m \in Fixtures : Act!Vote(r, m)
  BY <1>1 DEF Act!Vote, Asks
<1>2. CASE \E r \in Voters : Act!CountToday(r)
  BY <1>2 DEF Act!CountToday, Act!Answer, Act!Step, Counts
<1>3. ASSUME NEW r \in Voters, Act!ReadRow(r) PROVE Reads(r)
  <2> DEFINE m == request[r].match
  <2>1. /\ request[r].pc = "read" /\ row' = row
        /\ \/ request' = [request EXCEPT ![r] = Act!Idle]
           \/ /\ request' = [request EXCEPT ![r].pc = Act!NextStep(m), ![r].saw = row[m].age]
              /\ Act!NextStep(m) # "idle"
    BY <1>3 DEF Act!ReadRow, Act!Answer
  <2>2. row[m].age \in {"none", "cooling", "open", "old"} /\ row[m].locked \in BOOLEAN
    BY AgeFields
  <2>3. /\ Act!NextStep(m) \in {"insert", "idle", "lock", "flip"}
        /\ Act!NextStep(m) \in {"lock", "flip"} => row[m].age # "none"
        /\ Act!NextStep(m) = "flip" => row[m].age = "open"
    BY <2>2 DEF Act!NextStep
  <2>4. QED
    BY <2>1, <2>3 DEF Reads
<1>4. CASE \E r \in Voters : Act!InsertVote(r)
  BY <1>4 DEF Act!InsertVote, Act!Answer, Writes
<1>5. CASE \E r \in Voters : Act!LockVote(r)
  BY <1>5 DEF Act!LockVote, Act!Answer, Writes
<1>6. CASE \E r \in Voters : Act!FlipVote(r)
  BY <1>6 DEF Act!FlipVote, Act!Answer, Writes
<1>7. CASE \E m \in Fixtures : Act!VoteAges24h(m)
  <2>1. PICK m \in Fixtures : Act!VoteAges24h(m)
    BY <1>7
  <2>2. Ages(m)
    BY <2>1 DEF Act!VoteAges24h, Ages
  <2>3. QED
    BY <2>2
<1>8. CASE \/ Act!PostView \/ Act!Aggregate \/ Act!Outage \/ Act!SeedBegin
           \/ Act!InsertSeedView \/ Act!SeedVotes \/ Act!InsertSeedVote \/ Act!SeedEnds
           \/ \E kind \in {"reader", "seed"} :
                (\E a \in Act!ViewAges : Act!ViewAgesOneClass(kind, a)) \/ Act!Prune(kind)
  BY <1>8 DEF Act!PostView, Act!Aggregate, Act!Outage, Act!SeedBegin, Act!InsertSeedView,
              Act!SeedVotes, Act!InsertSeedVote, Act!SeedEnds, Act!ViewAgesOneClass, Act!Prune,
              Act!voteVars
<1>9. QED
  BY <1>1, <1>2, <1>3, <1>4, <1>5, <1>6, <1>7, <1>8 DEF Act!Next

LEMMA VoteRowsStep == ASSUME VoteRowsInv, [Act!Next]_(Act!vars) PROVE VoteRowsInv'
<1>0. /\ \A m \in Fixtures : /\ row[m].age \in {"none", "cooling", "open", "old"}
                             /\ row[m].locked \in BOOLEAN
      /\ \A r \in Voters : request[r].match \in Fixtures
      /\ Seeded \in Fixtures
  BY AgeFields, AudienceAssumption DEF Act!ActivityAssumption
<1>1. CASE row' = row /\ request' = request
  BY <1>1 DEF VoteRowsInv
<1>2. ASSUME NEW r \in Voters, Asks(r) \/ Counts(r) \/ Reads(r) PROVE VoteRowsInv'
  <2> DEFINE Request == [pc : {"idle", "count", "read", "insert", "lock", "flip"},
                         match : Fixtures, saw : Act!VoteAges]
             Good(q) == /\ q.pc \in {"lock", "flip"} => row[q.match].age # "none"
                        /\ q.pc = "flip" => q.saw = "open"
  <2>1. row' = row /\ request \in [Voters -> Request] /\ request[r] \in Request
    BY <1>2 DEF Asks, Counts, Reads, VoteRowsInv
  <2>2. ASSUME NEW new \in Request, Good(new), request' = [request EXCEPT ![r] = new]
        PROVE  VoteRowsInv'
    BY <2>1, <2>2 DEF VoteRowsInv
  <2>3. CASE Asks(r)
    <3>1. PICK m \in Fixtures :
            request' = [request EXCEPT ![r] = [pc |-> "count", match |-> m, saw |-> "none"]]
      BY <2>3 DEF Asks
    <3>2. [pc |-> "count", match |-> m, saw |-> "none"] \in Request
      BY DEF Act!VoteAges
    <3>3. QED
      BY <2>2, <3>1, <3>2
  <2>4. CASE request' = [request EXCEPT ![r] = Act!Idle]
    <3>1. Act!Idle \in Request /\ Good(Act!Idle)
      BY <1>0 DEF Act!Idle, Act!VoteAges
    <3>2. QED
      BY <2>2, <2>4, <3>1
  <2>5. CASE request' = [request EXCEPT ![r].pc = "read"]
    <3> DEFINE new == [request[r] EXCEPT !.pc = "read"]
    <3>1. new \in Request /\ new.pc = "read"
      BY <2>1
    <3>2. request' = [request EXCEPT ![r] = new]
      BY <2>5
    <3>3. QED
      BY <2>2, <3>1, <3>2
  <2>6. ASSUME NEW pc \in {"insert", "lock", "flip"}, NEW seen \in Act!VoteAges,
               seen = row[request[r].match].age,
               request' = [request EXCEPT ![r].pc = pc, ![r].saw = seen],
               pc \in {"lock", "flip"} => seen # "none", pc = "flip" => seen = "open"
        PROVE  VoteRowsInv'
    <3> DEFINE new == [[request[r] EXCEPT !.pc = pc] EXCEPT !.saw = seen]
    <3>1. new \in Request /\ new.pc = pc /\ new.saw = seen /\ new.match = request[r].match
      BY <2>1
    <3>2. request' = [request EXCEPT ![r] = new]
      BY <2>1, <2>6
    <3> HIDE DEF new
    <3>3. QED
      BY <2>2, <2>6, <3>1, <3>2
  <2>7. CASE Reads(r) /\ request' # [request EXCEPT ![r] = Act!Idle]
    <3>1. row[request[r].match].age \in Act!VoteAges
      BY <1>0, <2>1 DEF VoteRowsInv
    <3>2. QED
      BY <2>6, <2>7, <3>1 DEF Reads
  <2>8. QED
    BY <1>2, <2>3, <2>4, <2>5, <2>7 DEF Counts
<1>3. ASSUME NEW r \in Voters, Writes(r) PROVE VoteRowsInv'
  <2>1. PICK m \in Fixtures : m = request[r].match
    BY <1>0
  <2>2. /\ request' \in [Voters -> [pc : {"idle", "count", "read", "insert", "lock", "flip"},
                                    match : Fixtures, saw : Act!VoteAges]]
        /\ request'[r].pc = "idle" /\ \A s \in Voters : s # r => request'[s] = request[s]
    BY <1>0, <1>3 DEF Writes, VoteRowsInv, Act!Idle, Act!VoteAges
  <2>3. /\ row' \in [Fixtures -> [age : Act!VoteAges, locked : BOOLEAN]]
        /\ \A k \in Fixtures : k # m => row'[k] = row[k]
        /\ row[m].age # "none" => row'[m].age # "none"
        /\ row'[m].locked => row'[m].age # "none"
    <3>1. CASE row' = row
      BY <2>1, <3>1 DEF VoteRowsInv
    <3>2. CASE row' = [row EXCEPT ![m].locked = TRUE] /\ request[r].pc = "lock"
      BY <2>1, <3>2 DEF VoteRowsInv
    <3>3. CASE row' = [row EXCEPT ![m].age = "cooling"]
      BY <2>1, <3>3 DEF VoteRowsInv, Act!VoteAges
    <3>4. QED
      BY <1>3, <2>1, <3>1, <3>2, <3>3 DEF Writes
  <2>4. \A k \in Fixtures : row[k].age # "none" => row'[k].age # "none"
    BY <2>3
  <2>5. \A k \in Fixtures : row'[k].locked => row'[k].age # "none"
    BY <2>3 DEF VoteRowsInv
  <2>6. \A s \in Voters :
          /\ request'[s].pc \in {"lock", "flip"} => row'[request'[s].match].age # "none"
          /\ request'[s].pc = "flip" => request'[s].saw = "open"
    BY <1>0, <2>2, <2>4 DEF VoteRowsInv
  <2>7. QED
    BY <2>2, <2>3, <2>5, <2>6 DEF VoteRowsInv
<1>4. ASSUME NEW m \in Fixtures, Ages(m) PROVE VoteRowsInv'
  <2>1. /\ row' \in [Fixtures -> [age : Act!VoteAges, locked : BOOLEAN]]
        /\ \A k \in Fixtures : row'[k].locked = row[k].locked
        /\ \A k \in Fixtures : row[k].age # "none" => row'[k].age # "none"
    BY <1>4 DEF Ages, VoteRowsInv, Act!VoteAges
  <2>2. request' = request
    BY <1>4 DEF Ages
  <2>3. QED
    BY <1>0, <2>1, <2>2 DEF VoteRowsInv
<1>5. CASE UNCHANGED Act!vars
  BY <1>1, <1>5 DEF Act!vars, Act!voteVars
<1>6. QED
  BY <1>1, <1>2, <1>3, <1>4, <1>5, VoteSteps

\* A vote past its 24 hours, or locked, is not changed again by any step but that of a
\* request that had read it while it was open.
LEMMA FrozenSteps ==
    ASSUME VoteRowsInv, [Act!Next]_(Act!vars), NEW m \in Fixtures, Act!Frozen(m), ~Act!Overdue(m)
    PROVE  /\ row[m].locked => row'[m].locked
           /\ row'[m].age = "cooling" => row[m].age = "cooling"
<1>0. row \in [Fixtures -> [age : Act!VoteAges, locked : BOOLEAN]]
      /\ row[m].age # "none" /\ row[m].locked \in BOOLEAN
  BY DEF VoteRowsInv, Act!Frozen
<1>1. CASE row' = row
  BY <1>1
<1>2. ASSUME NEW r \in Voters, Writes(r)
      PROVE  /\ row[m].locked => row'[m].locked
             /\ row'[m].age = "cooling" => row[m].age = "cooling"
  <2>1. CASE request[r].match = m
    <3>1. request[r].pc # "flip"
      BY <2>1 DEF VoteRowsInv, Act!Overdue
    <3>2. QED
      BY <1>0, <1>2, <2>1, <3>1 DEF Writes
  <2>2. CASE request[r].match # m
    BY <1>0, <1>2, <2>2 DEF Writes
  <2>3. QED
    BY <2>1, <2>2
<1>3. ASSUME NEW k \in Fixtures, Ages(k)
      PROVE  /\ row[m].locked => row'[m].locked
             /\ row'[m].age = "cooling" => row[m].age = "cooling"
  BY <1>0, <1>3 DEF Ages
<1>4. CASE UNCHANGED Act!vars
  BY <1>1, <1>4 DEF Act!vars, Act!voteVars
<1>5. QED
  BY <1>1, <1>2, <1>3, <1>4, VoteSteps DEF Asks, Counts, Reads

\* Readers' votes belong to one part of the executions: outside it nothing moves.
LEMMA AudienceActivity ==
    [AudienceNext]_<<vars, activityVars, roundupVars, part>> => [Act!Next]_(Act!vars)
  BY DEF AudienceNext, activityVars, Act!vars, Act!voteVars, Act!jobVars

\* "After that the row is frozen" (router.py): a vote past its 24 hours, or locked, is not
\* moved back into its cooldown nor unlocked, for any number of matches and of requests of
\* the visitor side by side, but by a request that read the row while it was open.
THEOREM FrozenVotesStay == AudienceSpec => FrozenVoteStays
<1>1. AudienceInit => VoteRowsInv
  BY VoteRowsInit DEF AudienceInit
<1>2. VoteRowsInv /\ [AudienceNext]_<<vars, activityVars, roundupVars, part>> => VoteRowsInv'
  BY VoteRowsStep, AudienceActivity
<1>3. ASSUME VoteRowsInv, [AudienceNext]_<<vars, activityVars, roundupVars, part>>
      PROVE  [\A m \in Fixtures :
                Act!Frozen(m) /\ ~Act!Overdue(m) =>
                  /\ row[m].locked => row'[m].locked
                  /\ row'[m].age = "cooling" => row[m].age = "cooling"]_(Act!vars)
  BY <1>3, FrozenSteps, AudienceActivity
<1>4. QED
  BY <1>1, <1>2, <1>3, PTL DEF AudienceSpec, FrozenVoteStays, Act!FrozenVoteStays

-----------------------------------------------------------------------------
\* The requests that have been counted and may yet make one of the visitor's rows young.
Passed == {r \in Voters : request[r].pc \in {"read", "insert", "flip"}}

\* Every request let through has left room for itself among the others in flight.
CeilingInv ==
    Cardinality(Act!VotedToday) + Cardinality(Passed) <= DailyMax - 1 + Cardinality(Voters)

\* Activity counts with its own instance of FiniteSets.
LEMMA SameCounts ==
    /\ \A S : Act!IsFiniteSet(S) <=> IsFiniteSet(S)
    /\ \A S : Act!Cardinality(S) = Cardinality(S)
<1>1. \A S : Act!IsFiniteSet(S) <=> IsFiniteSet(S)
  BY DEF Act!IsFiniteSet, IsFiniteSet
<1>2. \A S : Act!Cardinality(S) = Cardinality(S)
  BY DEF Act!Cardinality, Cardinality
<1>3. QED
  BY <1>1, <1>2

LEMMA CeilingSets ==
    /\ \A S \in SUBSET Fixtures : IsFiniteSet(S) /\ Cardinality(S) \in Nat
    /\ \A S \in SUBSET Voters : /\ IsFiniteSet(S) /\ Cardinality(S) \in Nat
                                /\ Cardinality(S) <= Cardinality(Voters)
    /\ IsFiniteSet(Voters) /\ Cardinality(Voters) \in Nat /\ DailyMax \in Nat \ {0}
<1>1. IsFiniteSet(Fixtures) /\ IsFiniteSet(Voters) /\ DailyMax \in Nat \ {0}
  BY AudienceAssumption, SameCounts DEF Act!ActivityAssumption
<1>2. \A S \in SUBSET Fixtures : IsFiniteSet(S)
  BY <1>1, FS_Subset
<1>3. \A S \in SUBSET Voters : IsFiniteSet(S) /\ Cardinality(S) <= Cardinality(Voters)
  BY <1>1, FS_Subset
<1>4. QED
  BY <1>1, <1>2, <1>3, FS_CardinalityType

LEMMA CeilingInit == Act!Init => CeilingInv
<1> SUFFICES ASSUME Act!Init PROVE CeilingInv
  OBVIOUS
<1>1. Act!VotedToday = {} /\ Passed = {}
  BY DEF Act!Init, Act!VotedToday, Passed, Act!Idle
<1>2. Cardinality({}) = 0
  BY FS_EmptySet
<1>3. QED
  BY <1>1, <1>2, CeilingSets DEF CeilingInv

\* What keeps the sum, in terms of the two sets.
LEMMA CeilingMoves ==
    ASSUME CeilingInv, NEW V \in SUBSET Fixtures, NEW P \in SUBSET Voters,
           Act!VotedToday \in SUBSET Fixtures, Passed \in SUBSET Voters,
           \/ V \subseteq Act!VotedToday /\ P \subseteq Passed
           \/ V = Act!VotedToday /\ ~Act!TooMany
           \/ \E r \in Passed, m \in Fixtures :
                P \subseteq Passed \ {r} /\ V \subseteq Act!VotedToday \cup {m}
    PROVE  Cardinality(V) + Cardinality(P) <= DailyMax - 1 + Cardinality(Voters)
<1> DEFINE T == Act!VotedToday
<1>1. /\ IsFiniteSet(T) /\ IsFiniteSet(Passed) /\ IsFiniteSet(V) /\ IsFiniteSet(P)
      /\ Cardinality(T) \in Nat /\ Cardinality(Passed) \in Nat
      /\ Cardinality(V) \in Nat /\ Cardinality(P) \in Nat
      /\ Cardinality(P) <= Cardinality(Voters)
      /\ Cardinality(Voters) \in Nat /\ DailyMax \in Nat \ {0}
  BY CeilingSets
<1>2. Cardinality(T) + Cardinality(Passed) <= DailyMax - 1 + Cardinality(Voters)
  BY DEF CeilingInv
<1>3. CASE V \subseteq T /\ P \subseteq Passed
  <2>1. Cardinality(V) <= Cardinality(T) /\ Cardinality(P) <= Cardinality(Passed)
    BY <1>1, <1>3, FS_Subset
  <2>2. QED
    BY <1>1, <1>2, <2>1
<1>4. CASE V = T /\ ~Act!TooMany
  <2>1. ~(Cardinality(V) >= DailyMax)
    BY <1>4, SameCounts DEF Act!TooMany
  <2>2. QED
    BY <1>1, <2>1
<1>5. ASSUME NEW r \in Passed, NEW m \in Fixtures, P \subseteq Passed \ {r}, V \subseteq T \cup {m}
      PROVE  Cardinality(V) + Cardinality(P) <= DailyMax - 1 + Cardinality(Voters)
  <2>1. IsFiniteSet(T \cup {m}) /\ Cardinality(T \cup {m}) <= Cardinality(T) + 1
    <3>1. /\ IsFiniteSet(T \cup {m})
          /\ Cardinality(T \cup {m}) = IF m \in T THEN Cardinality(T) ELSE Cardinality(T) + 1
      BY <1>1, FS_AddElement
    <3>2. QED
      BY <1>1, <3>1
  <2>2. IsFiniteSet(Passed \ {r}) /\ Cardinality(Passed \ {r}) = Cardinality(Passed) - 1
    <3>1. /\ IsFiniteSet(Passed \ {r})
          /\ Cardinality(Passed \ {r})
               = IF r \in Passed THEN Cardinality(Passed) - 1 ELSE Cardinality(Passed)
      BY <1>1, FS_RemoveElement
    <3>2. QED
      BY <3>1
  <2>3. Cardinality(V) <= Cardinality(T \cup {m}) /\ Cardinality(P) <= Cardinality(Passed \ {r})
    BY <1>5, <2>1, <2>2, FS_Subset
  <2>4. Cardinality(T \cup {m}) \in Nat
    BY <2>1, FS_CardinalityType
  <2>5. QED
    BY <1>1, <1>2, <2>1, <2>2, <2>3, <2>4
<1>6. QED
  BY <1>3, <1>4, <1>5

LEMMA CeilingStep == ASSUME VoteRowsInv, CeilingInv, [Act!Next]_(Act!vars) PROVE CeilingInv'
<1>0. /\ row \in [Fixtures -> [age : Act!VoteAges, locked : BOOLEAN]]
      /\ request \in [Voters -> [pc : {"idle", "count", "read", "insert", "lock", "flip"},
                                 match : Fixtures, saw : Act!VoteAges]]
      /\ Act!VotedToday \in SUBSET Fixtures /\ Passed \in SUBSET Voters
      /\ (Act!VotedToday)' \in SUBSET Fixtures /\ Passed' \in SUBSET Voters
  BY DEF VoteRowsInv, Act!VotedToday, Passed
<1> DEFINE Keeps ==
      \/ (Act!VotedToday)' \subseteq Act!VotedToday /\ Passed' \subseteq Passed
      \/ (Act!VotedToday)' = Act!VotedToday /\ ~Act!TooMany
      \/ \E r \in Passed, m \in Fixtures :
           Passed' \subseteq Passed \ {r} /\ (Act!VotedToday)' \subseteq Act!VotedToday \cup {m}
<1>1. row' = row => (Act!VotedToday)' = Act!VotedToday
  BY DEF Act!VotedToday
<1>2. ASSUME row' = row, request' = request PROVE Keeps
  BY <1>1, <1>2 DEF Passed
<1>3. ASSUME NEW r \in Voters, Asks(r) \/ Counts(r) \/ Reads(r) PROVE Keeps
  <2>1. row' = row
    BY <1>3 DEF Asks, Counts, Reads
  <2>2. ASSUME request'[r].pc \in {"read", "insert", "flip"} => r \in Passed,
               \A s \in Voters : s # r => request'[s] = request[s]
        PROVE  Passed' \subseteq Passed
    BY <2>2 DEF Passed
  <2>3. \A s \in Voters : s # r => request'[s] = request[s]
    BY <1>0, <1>3 DEF Asks, Counts, Reads
  <2>4. CASE Asks(r)
    <3>1. request'[r].pc = "count"
      BY <1>0, <2>4 DEF Asks
    <3>2. QED
      BY <1>1, <2>1, <2>2, <2>3, <3>1
  <2>5. CASE Counts(r)
    <3>1. ~Act!TooMany \/ request'[r].pc = "idle"
      BY <1>0, <2>5 DEF Counts, Act!Idle
    <3>2. QED
      BY <1>1, <2>1, <2>2, <2>3, <3>1
  <2>6. CASE Reads(r)
    <3>1. r \in Passed
      BY <2>6 DEF Reads, Passed
    <3>2. QED
      BY <1>1, <2>1, <2>2, <2>3, <3>1
  <2>7. QED
    BY <1>3, <2>4, <2>5, <2>6
<1>4. ASSUME NEW r \in Voters, Writes(r) PROVE Keeps
  <2>1. PICK m \in Fixtures : m = request[r].match
    BY <1>0
  <2>2. request'[r].pc = "idle" /\ \A s \in Voters : s # r => request'[s] = request[s]
    BY <1>0, <1>4 DEF Writes, Act!Idle
  <2>3. Passed' \subseteq Passed \ {r}
    BY <2>2 DEF Passed
  <2>4. CASE request[r].pc = "lock"
    <3>1. \A k \in Fixtures : row'[k].age = row[k].age
      BY <1>0, <1>4, <2>4 DEF Writes
    <3>2. (Act!VotedToday)' = Act!VotedToday
      BY <3>1 DEF Act!VotedToday
    <3>3. QED
      BY <2>3, <3>2
  <2>5. CASE request[r].pc \in {"insert", "flip"}
    <3>1. \A k \in Fixtures : k # m => row'[k] = row[k]
      BY <1>0, <1>4, <2>1 DEF Writes
    <3>2. (Act!VotedToday)' \subseteq Act!VotedToday \cup {m}
      BY <3>1 DEF Act!VotedToday
    <3>3. r \in Passed
      BY <2>5 DEF Passed
    <3>4. QED
      BY <2>3, <3>2, <3>3
  <2>6. QED
    BY <1>4, <2>4, <2>5 DEF Writes
<1>5. ASSUME NEW m \in Fixtures, Ages(m) PROVE Keeps
  <2>1. \A k \in Fixtures : row'[k].age \in {"cooling", "open"} => row[k].age \in {"cooling", "open"}
    BY <1>0, <1>5 DEF Ages
  <2>2. (Act!VotedToday)' \subseteq Act!VotedToday
    BY <2>1 DEF Act!VotedToday
  <2>3. Passed' = Passed
    BY <1>5 DEF Ages, Passed
  <2>4. QED
    BY <2>2, <2>3
<1>6. Keeps
  <2>1. ASSUME UNCHANGED Act!vars PROVE Keeps
    BY <1>2, <2>1 DEF Act!vars, Act!voteVars
  <2>2. QED
    BY <1>2, <1>3, <1>4, <1>5, <2>1, VoteSteps
<1> DEFINE V == (Act!VotedToday)'
           P == Passed'
<1>7. V \in SUBSET Fixtures /\ P \in SUBSET Voters
  BY <1>0
<1>8. /\ \/ V \subseteq Act!VotedToday /\ P \subseteq Passed
         \/ V = Act!VotedToday /\ ~Act!TooMany
         \/ \E r \in Passed, m \in Fixtures :
              P \subseteq Passed \ {r} /\ V \subseteq Act!VotedToday \cup {m}
  BY <1>6
<1> HIDE DEF V, P
<1>9. Cardinality(V) + Cardinality(P) <= DailyMax - 1 + Cardinality(Voters)
  BY <1>0, <1>7, <1>8, CeilingMoves
<1>10. QED
  BY <1>9 DEF CeilingInv, V, P

\* "Daily ceiling per anon" (router.py): however many requests of a visitor cross between
\* the count and the insert, the votes of a day pass the ceiling by no more than the
\* requests in flight beside one.
THEOREM DailyCeilingHolds == AudienceSpec => []DailyCeiling
<1>1. AudienceInit => VoteRowsInv /\ CeilingInv
  BY VoteRowsInit, CeilingInit DEF AudienceInit
<1>2. /\ VoteRowsInv /\ CeilingInv
      /\ [AudienceNext]_<<vars, activityVars, roundupVars, part>>
      => VoteRowsInv' /\ CeilingInv'
  BY VoteRowsStep, CeilingStep, AudienceActivity
<1>3. VoteRowsInv /\ CeilingInv => DailyCeiling
  <2>1. ASSUME VoteRowsInv, CeilingInv PROVE DailyCeiling
    <3>1. Act!VotedToday \in SUBSET Fixtures /\ Passed \in SUBSET Voters
      BY <2>1 DEF VoteRowsInv, Act!VotedToday, Passed
    <3>2. Cardinality(Act!VotedToday) <= DailyMax + Cardinality(Voters) - 1
      BY <2>1, <3>1, CeilingSets DEF CeilingInv
    <3>3. QED
      BY <3>2, SameCounts DEF DailyCeiling, Act!DailyCeiling
  <2>2. QED
    BY <2>1
<1>4. QED
  BY <1>1, <1>2, <1>3, PTL DEF AudienceSpec

-----------------------------------------------------------------------------
\* Until the first outage the job has counted every view that is not settled: what the
\* aggregate shows of a day is still among the rows younger than the prune takes.
NotSettled(kind) == views[kind]["fresh"] + views[kind]["aged"]

ViewsInv ==
    /\ DOMAIN views = {"reader", "seed"}
    /\ \A kind \in {"reader", "seed"} : views[kind] \in [Act!ViewAges -> Nat]
    /\ seeded \in Nat /\ outages \in Nat
    /\ aggregate \in [exists : BOOLEAN, views24 : Nat, votes : Nat, disabled : BOOLEAN]
    /\ outages = 0 =>
         ~down /\ aggregate.views24 <= NotSettled("reader") + NotSettled("seed")

LEMMA ViewsInit == Act!Init => ViewsInv
  BY DEF Act!Init, ViewsInv, NotSettled, Act!NoViews, Act!ViewAges

LEMMA ViewCounts ==
    ASSUME ViewsInv
    PROVE  /\ \A kind \in {"reader", "seed"} : \A a \in {"fresh", "aged", "settled"} :
                views[kind][a] \in Nat
           /\ aggregate.views24 \in Nat
  BY DEF ViewsInv, Act!ViewAges

LEMMA NoRows ==
    ASSUME ViewsInv, ~Act!HasRows
    PROVE  /\ views["reader"]["fresh"] = 0 /\ views["reader"]["aged"] = 0
           /\ views["seed"]["fresh"] = 0 /\ views["seed"]["aged"] = 0
<1> DEFINE rf == views["reader"]["fresh"]
           ra == views["reader"]["aged"]
           rs == views["reader"]["settled"]
           sf == views["seed"]["fresh"]
           sa == views["seed"]["aged"]
           ss == views["seed"]["settled"]
           real == Act!RealVotes
<1>1. rf \in Nat /\ ra \in Nat /\ rs \in Nat /\ sf \in Nat /\ sa \in Nat /\ ss \in Nat
  BY ViewCounts
<1>2. real \in Nat /\ seeded \in Nat
  BY DEF Act!RealVotes, ViewsInv
<1>3. ~((rf + ra + rs) + (sf + sa + ss) + seeded + real > 0)
  BY DEF Act!HasRows, Act!Total
<1>4. rf = 0 /\ ra = 0 /\ sf = 0 /\ sa = 0
  <2> HIDE DEF rf, ra, rs, sf, sa, ss, real
  <2>1. QED
    BY <1>1, <1>2, <1>3
<1>5. QED
  BY <1>4

LEMMA ViewsStep == ASSUME ViewsInv, [Act!Next]_(Act!vars) PROVE ViewsInv'
<1>0. /\ DOMAIN views = {"reader", "seed"}
      /\ \A kind \in {"reader", "seed"} :
           views[kind] \in [{"fresh", "aged", "settled"} -> Nat]
      /\ seeded \in Nat /\ outages \in Nat
      /\ aggregate \in [exists : BOOLEAN, views24 : Nat, votes : Nat, disabled : BOOLEAN]
  BY DEF ViewsInv, Act!ViewAges
<1>1. ASSUME UNCHANGED <<views, outages, down>>, seeded' \in Nat, aggregate'.views24 = aggregate.views24,
             aggregate' \in [exists : BOOLEAN, views24 : Nat, votes : Nat, disabled : BOOLEAN]
      PROVE  ViewsInv'
  BY <1>1 DEF ViewsInv, NotSettled
<1>2. CASE \E r \in Voters :
             \/ \E m \in Fixtures : Act!Vote(r, m)
             \/ Act!CountToday(r) \/ Act!ReadRow(r) \/ Act!InsertVote(r) \/ Act!LockVote(r)
             \/ Act!FlipVote(r)
  BY <1>0, <1>1, <1>2 DEF Act!Vote, Act!CountToday, Act!ReadRow, Act!InsertVote, Act!LockVote,
                          Act!FlipVote, Act!jobVars
<1>3. CASE \E m \in Fixtures : Act!VoteAges24h(m)
  BY <1>0, <1>1, <1>3 DEF Act!VoteAges24h, Act!jobVars
\* A step that adds to the views of a kind, or moves them on, leaves no fewer unsettled.
<1>4. ASSUME NEW kind \in {"reader", "seed"}, NEW p \in [{"fresh", "aged", "settled"} -> Nat],
             views' = [views EXCEPT ![kind] = p],
             outages = 0 => p["fresh"] + p["aged"] >= NotSettled(kind),
             UNCHANGED <<seeded, aggregate, outages, down>>
      PROVE  ViewsInv'
  <2>1. PICK other \in {"reader", "seed"} : other # kind
    OBVIOUS
  <2>2. views'[kind] = p /\ views'[other] = views[other] /\ DOMAIN views' = DOMAIN views
    BY <1>0, <1>4, <2>1
  <2>3. \A k \in {"reader", "seed"} : views'[k] \in [{"fresh", "aged", "settled"} -> Nat]
    BY <1>0, <1>4, <2>1, <2>2
  <2>4. outages = 0 => aggregate.views24 <= NotSettled("reader") + NotSettled("seed")
    BY DEF ViewsInv
  <2>5. outages = 0 =>
          aggregate.views24 <= (views'["reader"]["fresh"] + views'["reader"]["aged"])
                                 + (views'["seed"]["fresh"] + views'["seed"]["aged"])
    <3>1. \A k \in {"reader", "seed"} :
            /\ views[k]["fresh"] \in Nat /\ views[k]["aged"] \in Nat
            /\ views'[k]["fresh"] \in Nat /\ views'[k]["aged"] \in Nat
      BY <1>0, <2>3
    <3>2. outages = 0 => \A k \in {"reader", "seed"} :
            views'[k]["fresh"] + views'[k]["aged"] >= views[k]["fresh"] + views[k]["aged"]
      BY <1>4, <2>1, <2>2, <3>1 DEF NotSettled
    <3>3. aggregate.views24 \in Nat
      BY <1>0
    <3>4. QED
      BY <2>4, <3>1, <3>2, <3>3 DEF NotSettled
  <2>6. QED
    BY <1>0, <1>4, <2>2, <2>3, <2>5 DEF ViewsInv, NotSettled, Act!ViewAges
<1>5. CASE Act!PostView
  <2> DEFINE p == [views["reader"] EXCEPT !["fresh"] = @ + 1]
  <2>1. p \in [{"fresh", "aged", "settled"} -> Nat]
    BY <1>0
  <2>2. p["fresh"] + p["aged"] >= NotSettled("reader")
    BY <1>0 DEF NotSettled
  <2>3. views' = [views EXCEPT !["reader"] = p] /\ UNCHANGED <<seeded, aggregate, outages, down>>
    BY <1>5 DEF Act!PostView
  <2>4. QED
    BY <1>4, <2>1, <2>2, <2>3
<1>6. CASE Act!InsertSeedView
  <2> DEFINE p == [views["seed"] EXCEPT !["fresh"] = @ + 1]
  <2>1. p \in [{"fresh", "aged", "settled"} -> Nat]
    BY <1>0
  <2>2. p["fresh"] + p["aged"] >= NotSettled("seed")
    BY <1>0 DEF NotSettled
  <2>3. views' = [views EXCEPT !["seed"] = p] /\ UNCHANGED <<seeded, aggregate, outages, down>>
    BY <1>6 DEF Act!InsertSeedView
  <2>4. QED
    BY <1>4, <2>1, <2>2, <2>3
<1>7. ASSUME NEW kind \in {"reader", "seed"}, NEW a \in Act!ViewAges,
             Act!ViewAgesOneClass(kind, a)
      PROVE  ViewsInv'
  <2> DEFINE p == [views[kind] EXCEPT !["fresh"] = @ - 1, !["aged"] = @ + 1]
             q == [views[kind] EXCEPT !["aged"] = @ - 1, !["settled"] = @ + 1]
  <2>0. /\ views[kind]["fresh"] \in Nat /\ views[kind]["aged"] \in Nat
        /\ views[kind]["settled"] \in Nat /\ views[kind][a] > 0
        /\ a = "fresh" \/ (a = "aged" /\ down)
        /\ UNCHANGED <<seeded, aggregate, outages, down>>
    BY <1>0, <1>7 DEF Act!ViewAgesOneClass
  <2>1. CASE a = "fresh"
    <3>1. p \in [{"fresh", "aged", "settled"} -> Nat]
      BY <1>0, <2>0, <2>1
    <3>2. p["fresh"] + p["aged"] >= NotSettled(kind)
      BY <1>0, <2>0 DEF NotSettled
    <3>3. views' = [views EXCEPT ![kind] = p]
      BY <1>0, <1>7, <2>1 DEF Act!ViewAgesOneClass
    <3> HIDE DEF p
    <3>4. QED
      BY <1>4, <2>0, <3>1, <3>2, <3>3
  <2>2. CASE a # "fresh"
    <3>1. a = "aged" /\ outages # 0
      BY <2>0, <2>2 DEF ViewsInv
    <3>2. q \in [{"fresh", "aged", "settled"} -> Nat]
      BY <1>0, <2>0, <3>1
    <3>3. views' = [views EXCEPT ![kind] = q]
      BY <1>0, <1>7, <3>1 DEF Act!ViewAgesOneClass
    <3> HIDE DEF q
    <3>4. QED
      BY <1>4, <2>0, <3>1, <3>2, <3>3
  <2>3. QED
    BY <2>1, <2>2
<1>8. ASSUME NEW kind \in {"reader", "seed"}, Act!Prune(kind) PROVE ViewsInv'
  <2> DEFINE p == [views[kind] EXCEPT !["settled"] = 0]
  <2>1. p \in [{"fresh", "aged", "settled"} -> Nat]
    BY <1>0
  <2>2. p["fresh"] + p["aged"] >= NotSettled(kind)
    BY <1>0 DEF NotSettled
  <2>3. views' = [views EXCEPT ![kind] = p] /\ UNCHANGED <<seeded, aggregate, outages, down>>
    BY <1>8 DEF Act!Prune
  <2>4. QED
    BY <1>4, <2>1, <2>2, <2>3
<1>9. CASE Act!Aggregate
  <2>1. /\ UNCHANGED <<seeded, outages, down>>
        /\ DOMAIN views' = {"reader", "seed"}
        /\ \A k \in {"reader", "seed"} :
             views'[k] = [fresh |-> views[k]["fresh"], aged |-> 0,
                          settled |-> views[k]["settled"] + views[k]["aged"]]
        /\ aggregate' = IF Act!HasRows THEN Act!Recomputed ELSE aggregate
    BY <1>0, <1>9 DEF Act!Aggregate
  <2>2. \A k \in {"reader", "seed"} :
          /\ views[k]["fresh"] \in Nat /\ views[k]["aged"] \in Nat /\ views[k]["settled"] \in Nat
          /\ views'[k]["fresh"] = views[k]["fresh"] /\ views'[k]["aged"] = 0
    BY <1>0, <2>1
  <2>3. \A k \in {"reader", "seed"} : views'[k] \in [Act!ViewAges -> Nat]
    BY <2>1, <2>2 DEF Act!ViewAges
  <2>4. Act!RealVotes \in Nat
    BY DEF Act!RealVotes
  <2>5. /\ aggregate' \in [exists : BOOLEAN, views24 : Nat, votes : Nat, disabled : BOOLEAN]
        /\ Act!HasRows => aggregate'.views24 = views["reader"]["fresh"] + views["seed"]["fresh"]
    <3>1. views["reader"]["fresh"] + views["seed"]["fresh"] \in Nat /\ seeded + Act!RealVotes \in Nat
      BY <1>0, <2>2, <2>4
    <3>2. /\ Act!Recomputed \in [exists : BOOLEAN, views24 : Nat, votes : Nat, disabled : BOOLEAN]
          /\ Act!Recomputed.views24 = views["reader"]["fresh"] + views["seed"]["fresh"]
      BY <1>0, <3>1 DEF Act!Recomputed
    <3>3. QED
      BY <1>0, <2>1, <3>2
  \* With no row left there is nothing the old aggregate may show.
  <2>6. CASE ~Act!HasRows
    <3>1. aggregate' = aggregate /\ \A k \in {"reader", "seed"} :
            views[k]["fresh"] = 0 /\ views[k]["aged"] = 0
      BY <2>1, <2>6, NoRows
    <3>2. QED
      BY <2>1, <2>2, <2>3, <2>5, <3>1 DEF ViewsInv, NotSettled
  <2>7. CASE Act!HasRows
    BY <2>1, <2>2, <2>3, <2>5, <2>7 DEF ViewsInv, NotSettled
  <2>8. QED
    BY <2>6, <2>7
<1>10. CASE Act!Outage
  BY <1>0, <1>10 DEF Act!Outage, ViewsInv, NotSettled
<1>11. CASE Act!SeedBegin
  <2>1. UNCHANGED <<views, seeded, outages, down>>
    BY <1>11 DEF Act!SeedBegin
  <2>2. aggregate' = aggregate \/ aggregate' = [aggregate EXCEPT !.exists = TRUE, !.disabled = TRUE]
    BY <1>11 DEF Act!SeedBegin
  <2>3. QED
    BY <1>0, <1>1, <2>1, <2>2
<1>12. CASE Act!SeedVotes \/ Act!InsertSeedVote \/ Act!SeedEnds
  BY <1>0, <1>1, <1>12 DEF Act!SeedVotes, Act!InsertSeedVote, Act!SeedEnds
<1>13. CASE UNCHANGED Act!vars
  BY <1>0, <1>1, <1>13 DEF Act!vars, Act!jobVars
<1>14. QED
  BY <1>2, <1>3, <1>5, <1>6, <1>7, <1>8, <1>9, <1>10, <1>11, <1>12, <1>13 DEF Act!Next

\* "views_24h" (jobs.py): a match whose views and votes are all pruned shows no readers of
\* today, for any numbers of views, votes and seeds, as long as the aggregate job was never
\* away: the row it leaves behind for such a match was last written when nothing was fresh.
THEOREM GhostsNeedAnOutage == AudienceSpec => []NoGhostReaders
<1>1. AudienceInit => ViewsInv
  BY ViewsInit DEF AudienceInit
<1>2. ViewsInv /\ [AudienceNext]_<<vars, activityVars, roundupVars, part>> => ViewsInv'
  BY ViewsStep, AudienceActivity
<1>3. ViewsInv => NoGhostReaders
  <2>1. ASSUME ViewsInv, ~Act!HasRows, outages = 0 PROVE aggregate.views24 = 0
    <3>1. aggregate.views24 \in Nat
      BY <2>1, ViewCounts
    <3>2. QED
      BY <2>1, <3>1, NoRows DEF ViewsInv, NotSettled
  <2>2. QED
    BY <2>1 DEF NoGhostReaders, Act!NoGhostReaders
<1>4. QED
  BY <1>1, <1>2, <1>3, PTL DEF AudienceSpec

-----------------------------------------------------------------------------
(* The weekly roundup                                                        *)

\* The calendar of the roundup is the one above.
LEMMA SundaysCalendar ==
    /\ WeekAssumption /\ KickoffOf \in [Games -> Nat]
    /\ \A t : /\ Sunday!WindowStart(t) = WindowStart(t) /\ Sunday!WindowEnd(t) = WindowEnd(t)
              /\ Sunday!SleepLen(t) = SleepLen(t)
<1>1. Sunday!WeekAssumption /\ KickoffOf \in [Games -> Nat]
  BY AudienceAssumption DEF Sunday!RoundupAssumption
<1>2. WeekAssumption
  BY <1>1 DEF Sunday!WeekAssumption, WeekAssumption
<1>3. ASSUME NEW t
      PROVE  /\ Sunday!WindowStart(t) = WindowStart(t) /\ Sunday!WindowEnd(t) = WindowEnd(t)
             /\ Sunday!SleepLen(t) = SleepLen(t)
  BY DEF Sunday!WindowStart, Sunday!WindowEnd, Sunday!SleepLen, Sunday!NextFire, Sunday!Candidate,
         Sunday!WeekLen, Sunday!Today, Sunday!Weekday, WindowStart, WindowEnd, SleepLen, NextFire,
         Candidate, WeekLen, Today, Weekday
<1>4. QED
  BY <1>1, <1>2, <1>3

\* A roundup of the week before the k-th, with matches of that week only.
IsOfWeek(d, k) ==
    /\ d.week = k * WeekLen - WeekLen
    /\ d.picks \subseteq Games
    /\ \A m \in d.picks : d.week <= KickoffOf[m] /\ KickoffOf[m] < k * WeekLen

\* Roundups are of one week each; a match that was a pick when last decided still is one in its
\* file, or has been withdrawn; and what is withdrawn has closed.
WeeklyInv ==
    /\ now \in Nat
    /\ venue \in [Games -> {"before", "listed", "closed"}]
    /\ file \in [Games -> Sunday!States]
    /\ index \subseteq Games /\ called \subseteq Games
    /\ \A d \in weekly : \E k \in Nat : IsOfWeek(d, k)
    /\ \A d, e \in weekly : d.week = e.week => d = e
    /\ \A m \in called : file[m] \in {"pick", "withdrawn"}
    /\ \A m \in index : venue[m] # "before"
    /\ \A m \in Games : file[m] = "withdrawn" => venue[m] = "closed"

LEMMA WeeklyInit == Sunday!Init => WeeklyInv
  BY DEF Sunday!Init, WeeklyInv, Sunday!States

LEMMA WeeklyStep == WeeklyInv /\ [Sunday!Next]_roundupVars => WeeklyInv'
<1> SUFFICES ASSUME WeeklyInv, [Sunday!Next]_roundupVars PROVE WeeklyInv'
  OBVIOUS
<1>0. WeeklyInv
  OBVIOUS
<1>1. ASSUME NEW m \in Games, Sunday!Open(m) \/ Sunday!Close(m) PROVE WeeklyInv'
  <2>1. /\ UNCHANGED <<now, file, index, weekly, called>>
        /\ \A k \in Games : k # m => venue'[k] = venue[k]
        /\ venue' \in [Games -> {"before", "listed", "closed"}]
        /\ venue'[m] # "before" /\ venue[m] # "closed"
    BY <1>0, <1>1 DEF Sunday!Open, Sunday!Close, WeeklyInv
  <2>2. /\ \A k \in index : venue'[k] # "before"
        /\ \A k \in Games : file[k] = "withdrawn" => venue'[k] = "closed"
    BY <1>0, <2>1 DEF WeeklyInv
  <2>3. QED
    BY <1>0, <2>1, <2>2 DEF WeeklyInv
<1>2. CASE Sunday!Run
  <2>1. PICK picks \in SUBSET Sunday!Listed :
          /\ file' = [m \in Games |->
                        CASE m \in picks -> "pick"
                          [] m \in Sunday!Listed \ picks -> "pass"
                          [] m \in Sunday!Missing -> "withdrawn"
                          [] OTHER -> file[m]]
          /\ called' = (called \ Sunday!Listed) \cup picks
    BY <1>2 DEF Sunday!Run
  <2>2. index' = Sunday!Listed /\ UNCHANGED <<now, venue, weekly>>
    BY <1>2 DEF Sunday!Run
  <2>3. /\ Sunday!Listed \subseteq Games /\ \A m \in Sunday!Listed : venue[m] = "listed"
        /\ Sunday!Missing \subseteq Games
        /\ \A m \in Sunday!Missing : m \notin Sunday!Listed /\ venue[m] = "closed"
    BY <1>0 DEF Sunday!Listed, Sunday!Missing, WeeklyInv
  <2> HIDE DEF Sunday!Listed, Sunday!Missing
  <2>4. ASSUME NEW m \in Games
        PROVE  /\ file'[m] \in Sunday!States
               /\ m \in picks => file'[m] = "pick"
               /\ m \notin Sunday!Listed => file'[m] = "withdrawn" \/ file'[m] = file[m]
               /\ file'[m] = "withdrawn" => m \in Sunday!Missing \/ file[m] = "withdrawn"
    <3>1. file[m] \in Sunday!States
      BY <1>0 DEF WeeklyInv
    <3>2. CASE m \in picks
      <4>1. m \in Sunday!Listed /\ m \notin Sunday!Missing
        BY <2>3, <3>2
      <4>2. file'[m] = "pick"
        BY <2>1, <3>2, <4>1
      <4>3. QED
        BY <4>1, <4>2 DEF Sunday!States
    <3>3. CASE m \in Sunday!Listed \ picks
      BY <2>1, <3>3 DEF Sunday!States
    <3>4. CASE m \in Sunday!Missing
      <4>1. m \notin picks /\ m \notin Sunday!Listed
        BY <2>3, <3>4
      <4>2. file'[m] = "withdrawn"
        BY <2>1, <3>4, <4>1
      <4>3. QED
        BY <3>4, <4>1, <4>2 DEF Sunday!States
    <3>5. CASE m \notin picks /\ m \notin Sunday!Listed \ picks /\ m \notin Sunday!Missing
      BY <2>1, <3>1, <3>5
    <3>6. QED
      BY <3>2, <3>3, <3>4, <3>5
  <2>5. file' \in [Games -> Sunday!States] /\ called' \subseteq Games /\ index' \subseteq Games
    <3>1. DOMAIN file' = Games /\ file' = [m \in Games |-> file'[m]]
      BY <2>1
    <3>2. QED
      BY <1>0, <2>1, <2>2, <2>3, <2>4, <3>1 DEF WeeklyInv
  <2>6. \A m \in called' : file'[m] \in {"pick", "withdrawn"}
    BY <1>0, <2>1, <2>3, <2>4 DEF WeeklyInv
  <2>7. \A m \in Games : file'[m] = "withdrawn" => venue'[m] = "closed"
    BY <1>0, <2>2, <2>3, <2>4 DEF WeeklyInv
  <2>8. \A m \in index' : venue'[m] # "before"
    BY <2>2, <2>3
  <2>9. QED
    BY <1>0, <2>2, <2>5, <2>6, <2>7, <2>8 DEF WeeklyInv
<1>3. CASE Sunday!Fire
  <2> DEFINE new == [week |-> WindowStart(now), picks |-> Sunday!Standing]
  <2>1. /\ UNCHANGED <<now, venue, file, index, called>>
        /\ \/ weekly' = weekly
           \/ weekly' = weekly \cup {new} /\ \A d \in weekly : d.week # WindowStart(now)
    BY <1>3, SundaysCalendar DEF Sunday!Fire, Sunday!Drafted
  <2>2. PICK k \in Nat : /\ WindowStart(now) = k * WeekLen - WeekLen
                         /\ WindowEnd(now) = k * WeekLen - Second
    BY <1>0, WindowIsTheWeekBefore, SundaysCalendar DEF WeeklyInv
  <2>3. IsOfWeek(new, k)
    <3>1. Sunday!Standing \subseteq Games
      BY DEF Sunday!Standing
    <3>2. ASSUME NEW m \in Sunday!Standing
          PROVE  WindowStart(now) <= KickoffOf[m] /\ KickoffOf[m] < k * WeekLen
      <4>1. WindowStart(now) <= KickoffOf[m] /\ KickoffOf[m] <= WindowEnd(now)
        BY SundaysCalendar DEF Sunday!Standing, Sunday!InWindow
      <4>2. KickoffOf[m] \in Nat /\ Second \in Nat \ {0} /\ WeekLen \in Nat
        BY <3>1, SundaysCalendar DEF WeekAssumption, WeekLen
      <4>3. k * WeekLen \in Nat
        BY <4>2, SMT
      <4>4. QED
        BY <2>2, <4>1, <4>2, <4>3
    <3>3. QED
      BY <2>2, <3>1, <3>2 DEF IsOfWeek
  <2> HIDE DEF new
  <2>4. new.week = WindowStart(now)
    BY DEF new
  <2>5. /\ \A d \in weekly' : \E j \in Nat : IsOfWeek(d, j)
        /\ \A d, e \in weekly' : d.week = e.week => d = e
    BY <1>0, <2>1, <2>3, <2>4 DEF WeeklyInv
  <2>6. QED
    BY <1>0, <2>1, <2>5 DEF WeeklyInv
<1>4. CASE Sunday!Skip \/ Sunday!Pass
  BY <1>0, <1>4 DEF Sunday!Skip, Sunday!Pass, WeeklyInv
<1>5. CASE UNCHANGED roundupVars \/ Sunday!Horizon
  BY <1>0, <1>5 DEF roundupVars, Sunday!Horizon, Sunday!vars, WeeklyInv
<1>6. QED
  BY <1>1, <1>2, <1>3, <1>4, <1>5 DEF Sunday!Next

\* Whatever part of the audience moves, the roundup makes a step of its own or stands still.
LEMMA AudienceRoundup ==
    [AudienceNext]_<<vars, activityVars, roundupVars, part>> => [Sunday!Next]_roundupVars
  BY DEF AudienceNext

LEMMA WeeklyAlways == AudienceSpec => []WeeklyInv
<1>1. AudienceInit => WeeklyInv
  BY WeeklyInit DEF AudienceInit
<1>2. WeeklyInv /\ [AudienceNext]_<<vars, activityVars, roundupVars, part>> => WeeklyInv'
  BY WeeklyStep, AudienceRoundup
<1>3. QED
  BY <1>1, <1>2, PTL DEF AudienceSpec

\* Whatever the matches, the calendar and the hour, a week is rounded up once and no match is in
\* two roundups: the windows are of whole weeks, and a week that has its draft gets no other.
THEOREM RoundupsStayApart == AudienceSpec => []Sunday!RoundupsAreApart
<1>1. ASSUME WeeklyInv PROVE Sunday!RoundupsAreApart
  <2>1. ASSUME NEW d \in weekly, NEW e \in weekly, NEW m \in d.picks \cap e.picks
        PROVE  d = e
    <3>1. PICK k \in Nat : IsOfWeek(d, k)
      BY <1>1 DEF WeeklyInv
    <3>2. PICK j \in Nat : IsOfWeek(e, j)
      BY <1>1 DEF WeeklyInv
    <3>3. KickoffOf[m] \in Nat /\ WeekLen \in Nat
      BY <3>1, SundaysCalendar DEF IsOfWeek, WeekAssumption, WeekLen
    <3>4. k * WeekLen \in Nat /\ j * WeekLen \in Nat
      BY <3>3, SMT
    <3> DEFINE t == KickoffOf[m] + WeekLen
    <3>5. /\ t \in Nat /\ k * WeekLen <= t /\ t < k * WeekLen + WeekLen
          /\ j * WeekLen <= t /\ t < j * WeekLen + WeekLen
      BY <3>1, <3>2, <3>3, <3>4 DEF IsOfWeek
    <3> HIDE DEF t
    <3>6. k = j
      BY <3>5, OneWeek, SundaysCalendar
    <3>7. QED
      BY <1>1, <3>1, <3>2, <3>6 DEF IsOfWeek, WeeklyInv
  <2>2. QED
    BY <1>1, <2>1 DEF Sunday!RoundupsAreApart, WeeklyInv
<1>2. QED
  BY <1>1, WeeklyAlways, PTL

\* RoundupHasThePicks fails for one reason only: what the first roundup of a week misses of the
\* matches that were a pick when they were last decided has been withdrawn by a run, after
\* its market had closed. A pick whose market is open when the loop fires is never missed.
THEOREM OnlyWithdrawnMiss == AudienceSpec => Sunday!OnlyWithdrawnAreMissed
<1>1. ASSUME WeeklyInv, Sunday!Fire, ~Sunday!Drafted,
             NEW m \in called, Sunday!InWindow(KickoffOf[m], now)
      PROVE  \/ \E d \in weekly' : d.week = Sunday!WindowStart(now) /\ m \in d.picks
             \/ file[m] = "withdrawn" /\ venue[m] = "closed"
  <2>1. m \in Games /\ file[m] \in {"pick", "withdrawn"}
        /\ (file[m] = "withdrawn" => venue[m] = "closed")
    BY <1>1 DEF WeeklyInv
  <2>2. CASE file[m] = "pick"
    <3>1. m \in Sunday!Standing
      BY <1>1, <2>1, <2>2 DEF Sunday!Standing
    <3>2. weekly' = weekly \cup {[week |-> Sunday!WindowStart(now), picks |-> Sunday!Standing]}
      BY <1>1, <3>1 DEF Sunday!Fire
    <3> DEFINE new == [week |-> Sunday!WindowStart(now), picks |-> Sunday!Standing]
    <3>3. new.week = Sunday!WindowStart(now) /\ m \in new.picks /\ new \in weekly'
      BY <3>1, <3>2
    <3> HIDE DEF new
    <3>4. QED
      BY <3>3
  <2>3. QED
    BY <2>1, <2>2
<1>2. WeeklyInv => Sunday!MissesAreWithdrawn
  BY <1>1 DEF Sunday!MissesAreWithdrawn
<1>3. WeeklyInv /\ [AudienceNext]_<<vars, activityVars, roundupVars, part>>
        => [Sunday!MissesAreWithdrawn]_(Sunday!vars)
  BY <1>2
<1>4. QED
  BY <1>3, WeeklyAlways, PTL DEF AudienceSpec, Sunday!OnlyWithdrawnAreMissed
=============================================================================
