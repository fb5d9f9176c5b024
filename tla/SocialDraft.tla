----------------------------- MODULE SocialDraft ----------------------------
(***************************************************************************)
(* The queue of social drafts: `desk social draft-daily` drafts the pick   *)
(* of the day (desk/desk/social/runner.py), and an operator decides on it, *)
(* edits its captions and reports the post (desk_social_api.py).           *)
(*                                                                         *)
(* The table social_drafts (desk/desk/social/queue.py) is all they share.  *)
(* A drafter is a process of its own, launched by every tick of the        *)
(* refresh loop and by every run-now; a handler is one request, on a       *)
(* thread and a connection of its own.  Both read the table in one         *)
(* statement and write it in another, in autocommit mode.  A draft id is   *)
(* the day of the drafter and the match; a caption is the number of the    *)
(* edit that wrote it, 0 for the generated one.                            *)
(***************************************************************************)
EXTENDS Integers, Sequences, SequencesExt

CONSTANTS
    Picks,     \* match ids a drafter may select
    Drafters,  \* `desk social draft-daily` processes that may overlap
    Handlers,  \* requests that may overlap
    MaxDay,    \* bound: days that go by
    MaxEdits   \* bound: captions submitted

ASSUME SocialAssumption ==
    /\ MaxDay \in Nat \ {0}
    /\ MaxEdits \in Nat

VARIABLES
    rows,     \* the table: from the draft ids that exist to the drafts
    today,
    drafter,  \* per drafter: where it is in draft_daily
    handler,  \* per handler: the request and the row as it was read
    edits,
    (* History, read by no action. *)
    approved, \* ids that were approved once
    saved,    \* per id: the edits answered with 200
    crossed   \* ids that were written by a request after another had changed
              \* the row it decided on

history == <<approved, saved, crossed>>

vars == <<rows, today, drafter, handler, edits, history>>

-----------------------------------------------------------------------------
Ids == (1 .. MaxDay) \X Picks

Statuses == {"pending", "approved", "rejected", "skipped", "published"}

Terminal == {"rejected", "skipped", "published"}

Fields == {"caption_ig", "caption_x"}

Caption == 0 .. MaxEdits

Entry == [field : Fields, before : Caption, after : Caption]

Draft ==
    [status : Statuses,
     caption : [Fields -> Caption],
     posted  : BOOLEAN,      \* published_at is set
     history : Seq(Entry)]   \* edit_history_json

Requests ==
    [op : {"move"}, to : Statuses \ {"pending"}]
      \cup [op : {"edit"}, field : Fields, text : Caption]

Idle == [pc |-> "idle"]

Drafting == [pc : {"rendering", "raised"}, id : Ids]

Reading == [pc : {"read"}, id : Ids, req : Requests, row : Draft]

TypeOK ==
    /\ rows \in [DOMAIN rows -> Draft]
    /\ DOMAIN rows \subseteq Ids
    /\ today \in 1 .. MaxDay
    /\ drafter \in [Drafters -> {Idle} \cup Drafting]
    /\ handler \in [Handlers -> {Idle} \cup Reading]
    /\ \A h \in Handlers : handler[h] # Idle => handler[h].id \in DOMAIN rows
    /\ edits \in 0 .. MaxEdits
    /\ approved \subseteq DOMAIN rows
    /\ saved \in [Ids -> SUBSET Entry]
    /\ crossed \subseteq DOMAIN rows

Init ==
    /\ rows = [id \in {} |-> {}]
    /\ today = 1
    /\ drafter = [d \in Drafters |-> Idle]
    /\ handler = [h \in Handlers |-> Idle]
    /\ edits = 0
    /\ approved = {}
    /\ saved = [id \in Ids |-> {}]
    /\ crossed = {}

-----------------------------------------------------------------------------
(* Faulty variants of the operators below, one plausible slip each, that no  *)
(* action uses: they show that a property notices the slip.                  *)

\* A table without the partial index uq_daily.
Clashes_PrimaryKey(id) == id \in DOMAIN rows

\* A rejection may be undone.
AllowedTransitions_Undo ==
    [s \in Statuses |->
        CASE s = "pending"  -> {"approved", "rejected", "skipped"}
          [] s = "approved" -> {"published"}
          [] s = "rejected" -> {"approved"}
          [] OTHER          -> {}]

\* The history keeps the last edit only.
Edited_LastOnly(now, read, field, text) ==
    [now EXCEPT !.caption[field] = text,
                !.history = <<[field |-> field, before |-> read.caption[field], after |-> text]>>]

-----------------------------------------------------------------------------
\* The PRIMARY KEY and the partial unique index uq_daily.
Clashes(id) == \E i \in DOMAIN rows : i = id \/ i[2] = id[2]

\* Of _ALLOWED_TRANSITIONS what the routes can reach: none sets publish_failed.
AllowedTransitions ==
    [s \in Statuses |->
        CASE s = "pending"  -> {"approved", "rejected", "skipped"}
          [] s = "approved" -> {"published"}
          [] OTHER          -> {}]

\* The UPDATE of a transition: it never looks at the status it replaces.
Moved(now, to) ==
    [now EXCEPT !.status = to, !.posted = @ \/ to = "published"]

\* The UPDATE of an edit: the history is the one that was read, and one entry.
Edited(now, read, field, text) ==
    [now EXCEPT !.caption[field] = text,
                !.history = Append(read.history,
                    [field |-> field, before |-> read.caption[field], after |-> text])]

NewDraft ==
    [status |-> "pending", caption |-> [f \in Fields |-> 0], posted |-> FALSE,
     history |-> <<>>]

-----------------------------------------------------------------------------
(* draft_daily *)

\* The selector chooses a pick, and has_daily_for_match finds no row for it.
Select(d, m) ==
    /\ drafter[d] = Idle
    /\ \A id \in DOMAIN rows : id[2] # m
    /\ drafter' = [drafter EXCEPT ![d] = [pc |-> "rendering", id |-> <<today, m>>]]
    /\ UNCHANGED <<rows, today, handler, edits, history>>

\* The slides are rendered; insert.
Insert(d) ==
    /\ drafter[d].pc = "rendering"
    /\ LET id == drafter[d].id IN
         \/ /\ ~Clashes(id)
            /\ rows' = [i \in DOMAIN rows \cup {id} |-> IF i = id THEN NewDraft ELSE rows[i]]
            /\ drafter' = [drafter EXCEPT ![d] = Idle]
         \/ /\ Clashes(id)
            /\ drafter' = [drafter EXCEPT ![d] = [pc |-> "raised", id |-> id]]
            /\ UNCHANGED rows
    /\ UNCHANGED <<today, handler, edits, history>>

\* RendererError, the timeout of the loop, or the end of a process that raised.
Exit(d) ==
    /\ drafter[d] # Idle
    /\ drafter' = [drafter EXCEPT ![d] = Idle]
    /\ UNCHANGED <<rows, today, handler, edits, history>>

Midnight ==
    /\ today < MaxDay
    /\ today' = today + 1
    /\ UNCHANGED <<rows, drafter, handler, edits, history>>

-----------------------------------------------------------------------------
(* The routes of the operator: _transition_or_409 and edit_caption *)

\* The request passes the guard, on the row as it is now.
Read(h, id, req) ==
    /\ handler[h] = Idle
    /\ handler' = [handler EXCEPT ![h] =
                     [pc |-> "read", id |-> id, req |-> req, row |-> rows[id]]]
    /\ UNCHANGED <<rows, today, drafter, history>>

RequestMove(h, id, to) ==
    /\ to \in AllowedTransitions[rows[id].status]
    /\ Read(h, id, [op |-> "move", to |-> to])
    /\ UNCHANGED edits

RequestEdit(h, id, field) ==
    /\ rows[id].status \notin Terminal
    /\ edits < MaxEdits
    /\ edits' = edits + 1
    /\ Read(h, id, [op |-> "edit", field |-> field, text |-> edits + 1])

\* 409 invalid_state: the table is left alone.  (A decided draft refuses every
\* request; a refusal of others is the same step.)
Refuse(h, id) ==
    /\ handler[h] = Idle
    /\ rows[id].status \in Terminal
    /\ UNCHANGED vars

\* UPDATE social_drafts SET ... WHERE draft_id = ?
Commit(h) ==
    /\ handler[h].pc = "read"
    /\ LET id == handler[h].id
           read == handler[h].row
           req == handler[h].req
       IN
       /\ \/ /\ req.op = "move"
             /\ rows' = [rows EXCEPT ![id] = Moved(rows[id], req.to)]
             /\ approved' = IF req.to = "approved" THEN approved \cup {id} ELSE approved
             /\ UNCHANGED saved
          \/ /\ req.op = "edit"
             /\ rows' = [rows EXCEPT ![id] = Edited(rows[id], read, req.field, req.text)]
             /\ saved' = [saved EXCEPT ![id] = @ \cup {Last(rows'[id].history)}]
             /\ UNCHANGED approved
       /\ crossed' = IF rows[id] = read THEN crossed ELSE crossed \cup {id}
    /\ handler' = [handler EXCEPT ![h] = Idle]
    /\ UNCHANGED <<today, drafter, edits>>

\* The write raises (the database stays locked for 2 s) or the server restarts.
Abort(h) ==
    /\ handler[h].pc = "read"
    /\ handler' = [handler EXCEPT ![h] = Idle]
    /\ UNCHANGED <<rows, today, drafter, edits, history>>

DraftDaily(d) == (\E m \in Picks : Select(d, m)) \/ Insert(d) \/ Exit(d)

Handling(h) ==
    \/ \E id \in DOMAIN rows :
         \/ \E to \in Statuses : RequestMove(h, id, to)
         \/ \E field \in Fields : RequestEdit(h, id, field)
         \/ Refuse(h, id)
    \/ Commit(h)
    \/ Abort(h)

Next ==
    \/ \E d \in Drafters : DraftDaily(d)
    \/ \E h \in Handlers : Handling(h)
    \/ Midnight

Spec == Init /\ [][Next]_vars

-----------------------------------------------------------------------------
(* Properties *)

\* A pick is posted once, whatever drafters overlap and whatever day each of
\* them takes it to be (the draft id alone would let it through twice).
PostedOnce ==
    \A i, j \in DOMAIN rows : rows[i].posted /\ rows[j].posted /\ i[2] = j[2] => i = j

\* A post is reported on a draft that an operator approved, even when the
\* decisions of two operators cross.
PostedWasApproved ==
    \A id \in DOMAIN rows : rows[id].posted => id \in approved

\* A decided draft is closed to decisions and to edits (test_queue.py,
\* test_edit_caption_locked_on_terminal) until two requests cross on it.
TerminalRowIsFrozen ==
    [][\A id \in DOMAIN rows \ crossed' :
         rows[id].status \in Terminal => rows'[id] = rows[id]]_vars

\* "Editing a caption writes to edit_history_json" (THE_DESK_SOCIAL_SPEC.md):
\* an edit that was answered with 200 stays in the history, unless two requests
\* crossed on the draft.
EveryEditRecorded ==
    \A id \in DOMAIN rows \ crossed : saved[id] \subseteq ToSet(rows[id].history)
=============================================================================
