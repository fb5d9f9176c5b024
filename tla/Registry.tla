------------------------------ MODULE Registry -----------------------------
(* The switches of the background loops: schedules.json, which the admin     *)
(* routes change by reading, changing and writing the whole document through *)
(* one temporary file (loop_registry.py, desk_ops_api.py; control.json is    *)
(* written the same way). The server runs the routes in a pool of threads.   *)
(*                                                                           *)
(* A path leads to an inode, and a writer keeps the inode it opened even     *)
(* when another one renames the path under it.                               *)
EXTENDS Naturals, FiniteSets

CONSTANTS
    Loops,         \* the loops with a row in the registry
    Default,       \* LoopDef.default_enabled of each
    Requests,      \* admin requests in flight
    MaxToggles     \* bound: requests made

ASSUME RegistryAssumption ==
    /\ Default \in [Loops -> BOOLEAN]
    /\ IsFiniteSet(Requests)
    /\ MaxToggles \in Nat

VARIABLES
    doc,        \* the inode of schedules.json, or None
    tmp,        \* the inode of schedules.json.tmp, or None
    content,    \* what each inode holds
    request,    \* the admin requests
    toggles,    \* requests made
    \* Observed, for the properties only:
    wanted,     \* what the requests that were answered asked for
    sure        \* loops whose switch no crossing of requests has left in doubt

registryVars == <<doc, tmp, content, request, toggles, wanted, sure>>

-----------------------------------------------------------------------------
None == 0
Inodes == 1 .. Cardinality(Requests) + 2

Flags == [Loops -> BOOLEAN]

\* A document is JSON, or what a truncation or two writers left.
Document == [json : BOOLEAN, flags : Flags]
Json(flags) == [json |-> TRUE, flags |-> flags]
Truncated == [json |-> FALSE, flags |-> Default]

\* read: flags holds the document to be written; filled: the inode is opened, written.
Request == [pc : {"idle", "read", "opened", "filled"},
            loop : Loops, on : BOOLEAN, flags : Flags, inode : Inodes \cup {None}]

RegistryTypeOK ==
    /\ {doc, tmp} \subseteq Inodes \cup {None}
    /\ content \in [Inodes -> Document]
    /\ request \in [Requests -> Request]
    /\ toggles \in 0 .. MaxToggles
    /\ wanted \in Flags /\ sure \subseteq Loops

\* A fresh install has no file.
RegistryInit ==
    /\ doc = None /\ tmp = None
    /\ content = [i \in Inodes |-> Truncated]
    /\ request = [r \in Requests |->
                    [pc |-> "idle", loop |-> CHOOSE l \in Loops : TRUE, on |-> FALSE,
                     flags |-> Default, inode |-> None]]
    /\ toggles = 0
    /\ wanted = Default /\ sure = Loops

-----------------------------------------------------------------------------
\* read_schedules: a missing or unreadable file is the defaults.
Schedules == IF doc # None /\ content[doc].json THEN content[doc].flags ELSE Default

\* is_enabled, which each loop asks before each of its ticks.
IsEnabled(l) == Schedules[l]

InFlight == {r \in Requests : request[r].pc # "idle"}

\* Faulty: a document with this row and the defaults of the others.
Toggled_Fresh(l, on) == [Default EXCEPT ![l] = on]

Toggled(l, on) == [Schedules EXCEPT ![l] = on]

\* post_loop_enabled reads the document and changes one row of it.
ReadSchedules(r, l, on) ==
    /\ request[r].pc = "idle" /\ toggles < MaxToggles
    /\ toggles' = toggles + 1
    /\ request' = [request EXCEPT ![r] =
                     [pc |-> "read", loop |-> l, on |-> on, flags |-> Toggled(l, on),
                      inode |-> None]]
    /\ sure' = IF InFlight = {} THEN sure ELSE {}
    /\ UNCHANGED <<doc, tmp, content, wanted>>

\* The path write_text opens.
Target == tmp

\* Nobody reaches it: a new file gets such an inode.
Free(i) == i \notin {doc, tmp} /\ \A r \in InFlight : request[r].inode # i

\* write_text opens the temporary file and truncates it, or creates it.
Open(r) ==
    /\ request[r].pc = "read"
    /\ \E i \in Inodes :
         /\ IF Target # None THEN i = Target ELSE Free(i) /\ \A j \in Inodes : Free(j) => i <= j
         /\ tmp' = i
         /\ content' = [content EXCEPT ![i] = Truncated]
         /\ request' = [request EXCEPT ![r].pc = "opened", ![r].inode = i]
    /\ UNCHANGED <<doc, toggles, wanted, sure>>

\* It writes from the start of the file: over what another writer of the same inode has
\* put there meanwhile, whose tail stays if it is the longer one.
Fill(r) ==
    LET i == request[r].inode IN
    /\ request[r].pc = "opened"
    /\ \E c \in {Json(request[r].flags)} \cup (IF content[i].json THEN {Truncated} ELSE {}) :
         content' = [content EXCEPT ![i] = c]
    /\ request' = [request EXCEPT ![r].pc = "filled"]
    /\ UNCHANGED <<doc, tmp, toggles, wanted, sure>>

Answered(r) ==
    request' = [request EXCEPT ![r].pc = "idle", ![r].inode = None]

\* tmp.replace(path). Without a temporary file it raises, and the route answers 500.
Replace(r) ==
    /\ request[r].pc = "filled"
    /\ Answered(r)
    /\ IF tmp = None
       THEN UNCHANGED <<doc, tmp, wanted, sure>>
       ELSE /\ doc' = tmp /\ tmp' = None
            /\ wanted' = [wanted EXCEPT ![request[r].loop] = request[r].on]
            /\ sure' = IF InFlight = {r} THEN sure \cup {request[r].loop} ELSE sure
    /\ UNCHANGED <<content, toggles>>

\* A deploy ends every request where it is.
KillRequests ==
    /\ request' = [r \in Requests |-> [request[r] EXCEPT !.pc = "idle", !.inode = None]]
    /\ UNCHANGED <<doc, tmp, content, toggles, wanted, sure>>

RegistryNext ==
    \E r \in Requests :
        \/ \E l \in Loops, on \in BOOLEAN : ReadSchedules(r, l, on)
        \/ Open(r) \/ Fill(r) \/ Replace(r)

-----------------------------------------------------------------------------
\* A switch is what the last answered request made it, unless two requests crossed
\* since the last request of that loop that met no other: deploys in the middle of a
\* request lose and tear nothing, and a quiet toggle repairs a loop after a crossing.
SwitchesHold == \A l \in sure : IsEnabled(l) = wanted[l]
=============================================================================
