------------------------------ MODULE Realtime ------------------------------
(***************************************************************************)
(* Notifications of a new order: a row in the caller's commit, then a push *)
(* to every socket of the restaurant.  The push walks the live list of     *)
(* connections and awaits each send; sockets come and go meanwhile.        *)
(***************************************************************************)
EXTENDS Handlers, SequencesExt

CONSTANTS
    Sockets,        \* WebSocket connections of one restaurant, each used once
    Notes           \* notifications

ASSUME RealtimeAssumption == IsFiniteSet(Sockets)

VARIABLES
    active_connections, \* the list under the restaurant's key
    emptied,            \* how often the list was emptied and its key deleted
    spent,              \* sockets that have been accepted
    dead,               \* sockets whose peer is gone
    note,               \* notification rows: "NONE", "UNREAD", "READ"
    received            \* received[w][n]: how often socket w got message n

socketVars == <<active_connections, emptied, spent, dead>>
realtimeVars == <<socketVars, note, received>>

NoSockets ==
    /\ active_connections = <<>> /\ emptied = 0
    /\ spent = {} /\ dead = {}
    /\ note = [n \in Notes |-> "NONE"]
    /\ received = [w \in Sockets |-> [n \in Notes |-> 0]]

RealtimeTypeOK ==
    /\ active_connections \in BoundedSeq(spent, Cardinality(Sockets))
    /\ emptied \in 0..Cardinality(Sockets)
    /\ dead \subseteq spent /\ spent \subseteq Sockets
    /\ note \in [Notes -> {"NONE", "UNREAD", "READ"}]
    /\ received \in [Sockets -> [Notes -> Nat]]

-----------------------------------------------------------------------------
(* Mutant: a new connection replaces the list of its key. *)
ConnectAlone(w) ==
    /\ w \notin spent
    /\ spent' = spent \union {w}
    /\ active_connections' = <<w>>
    /\ UNCHANGED <<job, emptied, dead, note, received>>

connect(w) ==
    /\ w \notin spent
    /\ spent' = spent \union {w}
    /\ active_connections' = Append(active_connections, w)
    /\ UNCHANGED <<job, emptied, dead, note, received>>

HangUp(w) ==
    /\ w \in spent \ dead
    /\ dead' = dead \union {w}
    /\ UNCHANGED <<job, active_connections, emptied, spent, note, received>>

(* receive_text has raised WebSocketDisconnect; pushes under way remember  *)
(* that a listener left (quiet), which only the property looks at.         *)
disconnect(w) ==
    /\ w \in dead
    /\ \E i \in DOMAIN active_connections :
        active_connections[i] = w /\ active_connections' = RemoveAt(active_connections, i)
    /\ emptied' = IF active_connections = <<w>> THEN emptied + 1 ELSE emptied
    /\ job' = [s \in Sessions |-> IF job[s].op = "push" THEN [job[s] EXCEPT !.quiet = FALSE] ELSE job[s]]
    /\ UNCHANGED <<spent, dead, note, received>>

(* for connection in self.active_connections.get(key, []): the loop keeps  *)
(* the list object and an index; an emptied list is another object.        *)
AtEnd(j) == j.list # emptied \/ j.next > Len(active_connections)

(* A send to a peer that is gone is lost in the transport's buffers, or    *)
(* raises once the loss is noticed: the listeners behind it get nothing.   *)
send_to(s) ==
    /\ job[s].op = "push" /\ ~AtEnd(job[s])
    /\ LET w == active_connections[job[s].next] IN
        received' = IF w \in dead THEN received ELSE [received EXCEPT ![w][job[s].note] = @ + 1]
    /\ Continue(s, [job[s] EXCEPT !.next = @ + 1])
    /\ UNCHANGED <<socketVars, note>>

SendRaises(s) ==
    /\ job[s].op = "push" /\ ~AtEnd(job[s])
    /\ active_connections[job[s].next] \in dead
    /\ End(s)
    /\ UNCHANGED realtimeVars

PushEnds(s) ==
    /\ job[s].op = "push" /\ AtEnd(job[s])
    /\ Continue(s, [job[s] EXCEPT !.op = "pushed"])
    /\ UNCHANGED realtimeVars

Answered(s) == job[s].op = "pushed" /\ End(s) /\ UNCHANGED realtimeVars

-----------------------------------------------------------------------------
(* The order and its notification are committed. *)
add_order_notification(s, n) ==
    /\ note[n] = "NONE"
    /\ Begin(s, [op |-> "recorded", note |-> n])
    /\ note' = [note EXCEPT ![n] = "UNREAD"]
    /\ UNCHANGED <<socketVars, received>>

(* After the commit and another lookup of the restaurant. *)
push_new_order_to_restaurant(s) ==
    /\ job[s].op = "recorded"
    /\ Continue(s, [op |-> "push", note |-> job[s].note, next |-> 1, list |-> emptied, quiet |-> TRUE,
                    audience |-> spent \ dead])
    /\ UNCHANGED realtimeVars

MarkLoad(s, op, N) == N # {} /\ Begin(s, [op |-> op, notes |-> N]) /\ UNCHANGED realtimeVars

MarkCommit(s, op) ==
    /\ job[s].op = op
    /\ note' = [n \in Notes |-> IF n \in job[s].notes THEN "READ" ELSE note[n]]
    /\ End(s)
    /\ UNCHANGED <<socketVars, received>>

MarkRead(s, n) == note[n] # "NONE" /\ MarkLoad(s, "mark", {n})

mark_notification_as_read(s) == MarkCommit(s, "mark")

(* The UPDATE sees the rows of its own start. *)
MarkAllRead(s) == MarkLoad(s, "mark all", {n \in Notes : note[n] = "UNREAD"})

mark_all_notification_as_read(s) == MarkCommit(s, "mark all")

RealtimeStep ==
    \/ \E w \in Sockets : connect(w) \/ HangUp(w) \/ disconnect(w)
    \/ \E s \in Sessions :
        \/ \E n \in Notes : add_order_notification(s, n) \/ MarkRead(s, n)
        \/ push_new_order_to_restaurant(s) \/ send_to(s) \/ SendRaises(s) \/ PushEnds(s) \/ Answered(s)
        \/ mark_notification_as_read(s) \/ MarkAllRead(s) \/ mark_all_notification_as_read(s)

RealtimeInit == NoSockets /\ job = [s \in Sessions |-> Idle]

RealtimeSpec == RealtimeInit /\ [][RealtimeStep]_<<job, realtimeVars>>

(* A push that runs to its end has reached every socket that was connected *)
(* when it began and still is, unless a listener left during it (the loop  *)
(* then skips one); and no socket gets a message twice, whoever connects   *)
(* meanwhile.                                                              *)
PushReachesListeners ==
    /\ \A s \in Sessions :
        job[s].op = "pushed" /\ job[s].quiet =>
            \A w \in job[s].audience \ dead : received[w][job[s].note] > 0
    /\ \A w \in Sockets, n \in Notes : received[w][n] <= 1
=============================================================================
