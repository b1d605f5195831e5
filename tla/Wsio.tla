-------------------------------- MODULE Wsio --------------------------------
(***************************************************************************)
(* The WebSocket IO adapter of src/src/wsio.c: the connection state       *)
(* machine (wsio_open / wsio_close / wsio_destroy), the pending IO list    *)
(* fed by wsio_send, and the libwebsockets callback on_ws_callback that    *)
(* wsio_dowork re-enters through lws_service.                              *)
(*                                                                         *)
(* Everything runs on the caller's thread.  The only interleaving is       *)
(* re-entrance: whenever the code invokes a caller callback                *)
(* (on_send_complete, on_io_open_complete) and still has work to do after  *)
(* it returns, the caller may call back into wsio from inside the          *)
(* callback.  A handler is therefore split at those callbacks; the rest    *)
(* of it is a continuation kept in a frame of `stack`, and a nested call   *)
(* pushes its own frame on top.  With MaxDepth = 1 no callback ever calls  *)
(* back, and every handler runs to completion before anything else.        *)
(*                                                                         *)
(* libwebsockets is the environment: while wsio_dowork services the        *)
(* context it may deliver ESTABLISHED, CONNECTION_ERROR and (when asked    *)
(* for) WRITEABLE in any order, and lws_write may accept all, part or none *)
(* of a buffer, or fail.                                                   *)
(***************************************************************************)
EXTENDS Integers, Sequences, SequencesExt, FiniteSets

CONSTANTS
    MaxSends,     \* wsio_send calls that queue a buffer (write ids 1..MaxSends)
    MaxOpens,     \* successful wsio_open calls (open sessions 1..MaxOpens)
    Sizes,        \* payload sizes a caller passes to wsio_send
    MaxWire,      \* partial writes happen only while fewer bytes went to lws_write
    MaxDepth,     \* call-stack depth: 1 = callbacks never re-enter wsio
    NestedCalls,  \* the wsio calls a callback may make: subset of {"close", "send", "destroy"}
    NotifyFailures, \* where lws_callback_on_writable may fail: subset of {"send", "writeable"}
    EngineMayClose  \* the engine may close an established connection (LWS_CALLBACK_CLOSED)

ASSUME /\ MaxSends \in Nat \ {0}
       /\ MaxOpens \in Nat \ {0}
       /\ Sizes \subseteq Nat \ {0} /\ Sizes # {}
       /\ MaxWire \in Nat
       /\ MaxDepth \in {1, 2}
       /\ NestedCalls \subseteq {"close", "send", "destroy"}
       /\ NotifyFailures \subseteq {"send", "writeable"}
       /\ EngineMayClose \in BOOLEAN

Ids == 1..MaxSends

\* IO_STATE; IO_STATE_CLOSING is declared in the code but never assigned.
IoStates == {"NOT_OPEN", "OPENING", "OPEN", "ERROR"}

\* A byte of a payload: the k-th byte of the buffer given to the id-th send.
MaxSize == CHOOSE m \in Sizes : \A s \in Sizes : s <= m
ByteLabels == Ids \X (1..MaxSize)

\* Continuation points: the code that runs after a caller callback returns.
Pcs == {"w_sent", "w_failed", "ce_teardown", "c_teardown", "c_free"}

VARIABLES
    io_state,           \* wsio_instance->io_state
    pending_io_list,    \* the list of pending IOs, as a sequence of write ids
    pending_socket_io,  \* id -> the PENDING_SOCKET_IO: bytes, size, is_partially_sent
    ws_context,         \* the lws context: live, how often lws_context_destroy hit it,
                        \* and whether the engine has closed its connection (wsi)
    writable_requested, \* an lws_callback_on_writable request is outstanding
    stack,              \* frames of handlers suspended inside a caller callback
    destroyed,          \* wsio_destroy has freed the instance
    \* ghost state: what the caller and the engine have observed
    next_id,            \* id of the next write wsio_send queues
    sends,              \* id -> what wsio_send returned, its open session, times freed
    completions,        \* on_send_complete calls, in order: [id, result]
    open_results,       \* on_io_open_complete results of the current open session
    error_indicated,    \* on_io_error was called in the current open session
    epoch,              \* number of successful wsio_open calls
    wire                \* the bytes handed to lws_write, in order

vars == <<io_state, pending_io_list, pending_socket_io, ws_context,
          writable_requested, stack, destroyed, next_id, sends, completions,
          open_results, error_indicated, epoch, wire>>

NoWrite == [bytes |-> <<>>, size |-> 0, is_partially_sent |-> FALSE]

\* wsio_create sets io_state last, once every allocation has succeeded.
CreatedIoState == "NOT_OPEN"

Init ==
    /\ io_state = CreatedIoState
    /\ pending_io_list = <<>>
    /\ pending_socket_io = [i \in Ids |-> NoWrite]
    /\ ws_context = [live |-> FALSE, destroys |-> 0, wsi_closed |-> FALSE]
    /\ writable_requested = FALSE
    /\ stack = <<>>
    /\ destroyed = FALSE
    /\ next_id = 1
    /\ sends = [i \in Ids |-> [ret |-> "none", session |-> 0, frees |-> 0]]
    /\ completions = <<>>
    /\ open_results = <<>>
    /\ error_indicated = FALSE
    /\ epoch = 0
    /\ wire = <<>>

-----------------------------------------------------------------------------
(* Helpers translated from the code.                                       *)

\* Fault variant of AddPendingIo: the new item goes to the head of the list.
AddPendingIoAtHead(list, id) == <<id>> \o list

\* list_add appends the new pending IO at the tail of the list.
AddPendingIo(list, id) == Append(list, id)

\* Fault variant of MemMove: the buffer is cut down to the unsent tail
\* (as a realloc after the memmove would) but size is left as it was.
MemMoveShrunk(b, n) == SubSeq(b, n + 1, Len(b))

\* memmove(bytes, bytes + n, size - n) with size left as it was: the unsent
\* tail moves to the front and the last n bytes keep their old contents.
MemMove(b, n) == SubSeq(b, n + 1, Len(b)) \o SubSeq(b, Len(b) - n + 1, Len(b))

\* lws_context_destroy on the instance's context.
DestroyContext == ws_context' = [ws_context EXCEPT !.live = FALSE, !.destroys = @ + 1]

\* The results lws_callback_on_writable may return when called from `where`;
\* on a wsi the engine has already closed and freed the call is undefined
\* behaviour, and either result may come back.
Notified(where) ==
    IF where \in NotifyFailures \/ ws_context.wsi_closed THEN BOOLEAN ELSE {TRUE}

\* Completion callbacks.  Every write in the model carries an on_send_complete.
SendComplete(id, result) == completions' = Append(completions, [id |-> id, result |-> result])
OpenComplete(result) == open_results' = Append(open_results, result)

\* A frame suspended in a caller callback; `nested` records that the caller
\* has already made its call from inside this callback.
Frame(pc, item, destroying) ==
    [pc |-> pc, item |-> item, destroying |-> destroying, nested |-> FALSE]

Quiescent == stack = <<>>

\* The caller may call wsio_<kind> now: either at top level, or from inside
\* the callback the top frame is suspended in.
CanCall(kind) ==
    \/ Quiescent
    \/ /\ ~Quiescent
       /\ Len(stack) < MaxDepth
       /\ ~Last(stack).nested
       /\ kind \in NestedCalls

\* The stack once the current call has been entered.
Entered == IF Quiescent THEN <<>> ELSE [stack EXCEPT ![Len(stack)].nested = TRUE]

\* Fault variant of RemovePendingIo: the item is freed but list_remove is
\* never called.
RemovePendingIoKeepsItem(id, stopped) ==
    /\ sends' = [sends EXCEPT ![id].frees = @ + 1]
    /\ pending_io_list' = pending_io_list
    /\ io_state' = IF stopped THEN "ERROR" ELSE io_state
    /\ error_indicated' = (error_indicated \/ stopped)

\* remove_pending_io: free the buffer and the record, then list_remove; a
\* list_remove that does not find the item moves the IO to ERROR.  `stopped`
\* says the caller has just moved the IO to ERROR itself.
RemovePendingIo(id, stopped) ==
    LET found == id \in ToSet(pending_io_list) IN
    /\ sends' = [sends EXCEPT ![id].frees = @ + 1]
    /\ pending_io_list' = Remove(pending_io_list, id)
    /\ io_state' = IF stopped \/ ~found THEN "ERROR" ELSE io_state
    /\ error_indicated' = (error_indicated \/ stopped \/ ~found)

-----------------------------------------------------------------------------
(* wsio_open                                                               *)

\* lws_create_context succeeds, lws_client_connect returns a wsi.
Open ==
    /\ Quiescent /\ ~destroyed
    /\ io_state = "NOT_OPEN"
    /\ epoch < MaxOpens
    /\ io_state' = "OPENING"
    /\ ws_context' = [live |-> TRUE, destroys |-> 0, wsi_closed |-> FALSE]
    /\ writable_requested' = FALSE
    /\ epoch' = epoch + 1
    /\ open_results' = <<>>
    /\ error_indicated' = FALSE
    /\ UNCHANGED <<pending_io_list, pending_socket_io, stack, destroyed, next_id,
                   sends, completions, wire>>

\* Fault variant of OpenConnectFailed: the context is not destroyed.
OpenConnectFailedLeaksContext ==
    /\ Quiescent /\ ~destroyed
    /\ io_state = "NOT_OPEN"
    /\ ws_context' = [live |-> TRUE, destroys |-> 0, wsi_closed |-> FALSE]
    /\ UNCHANGED <<io_state, pending_io_list, pending_socket_io, writable_requested,
                   stack, destroyed, next_id, sends, completions, open_results,
                   error_indicated, epoch, wire>>

\* lws_client_connect fails: the context just created is destroyed and the
\* IO goes back to NOT_OPEN; wsio_open returns non-zero.
OpenConnectFailed ==
    /\ Quiescent /\ ~destroyed
    /\ io_state = "NOT_OPEN"
    /\ ws_context' = [live |-> FALSE, destroys |-> 1, wsi_closed |-> FALSE]
    /\ UNCHANGED <<io_state, pending_io_list, pending_socket_io, writable_requested,
                   stack, destroyed, next_id, sends, completions, open_results,
                   error_indicated, epoch, wire>>

-----------------------------------------------------------------------------
(* wsio_send                                                               *)

\* The buffer is copied into a new pending IO at the tail of the list, then
\* lws_callback_on_writable is called; if that fails wsio_send returns
\* non-zero but leaves the pending IO queued.
Send ==
    /\ CanCall("send") /\ ~destroyed
    /\ io_state = "OPEN"
    /\ next_id \in Ids
    /\ \E size \in Sizes, notified \in Notified("send") :
        /\ pending_socket_io' = [pending_socket_io EXCEPT ![next_id] =
              [bytes |-> [k \in 1..size |-> <<next_id, k>>], size |-> size,
               is_partially_sent |-> FALSE]]
        /\ pending_io_list' = AddPendingIo(pending_io_list, next_id)
        /\ writable_requested' = (writable_requested \/ notified)
        /\ sends' = [sends EXCEPT ![next_id] =
              [ret |-> IF notified THEN "ok" ELSE "fail", session |-> epoch, frees |-> 0]]
    /\ next_id' = next_id + 1
    /\ stack' = Entered
    /\ UNCHANGED <<io_state, ws_context, destroyed, completions, open_results,
                   error_indicated, epoch, wire>>

-----------------------------------------------------------------------------
(* wsio_close and wsio_destroy                                             *)

\* The end of wsio_close: lws_context_destroy, NOT_OPEN, and for
\* wsio_destroy the instance is freed (on_io_close_complete has no
\* effect on the model).
Teardown(destroying) ==
    /\ DestroyContext
    /\ io_state' = "NOT_OPEN"
    /\ destroyed' = destroying

\* The drain loop of wsio_close, at the head of `list`: cancel the head
\* item and suspend in its callback, or tear down once the list is empty.
DrainFrom(list, destroying, below) ==
    IF list # <<>>
    THEN /\ SendComplete(Head(list), "CANCELLED")
         /\ stack' = below \o <<Frame("c_free", Head(list), destroying)>>
         /\ UNCHANGED <<ws_context, io_state, destroyed>>
    ELSE /\ Teardown(destroying)
         /\ stack' = below
         /\ UNCHANGED completions

\* wsio_close from OPENING cancels the open first; from OPEN or ERROR it
\* cancels every pending IO.  From NOT_OPEN it fails without effect.
CloseCall(destroying) ==
    /\ io_state # "NOT_OPEN"
    /\ IF io_state = "OPENING"
       THEN /\ OpenComplete("CANCELLED")
            /\ stack' = Entered \o <<Frame("c_teardown", 0, destroying)>>
            /\ UNCHANGED <<ws_context, io_state, destroyed, completions>>
       ELSE /\ DrainFrom(pending_io_list, destroying, Entered)
            /\ UNCHANGED open_results
    /\ UNCHANGED <<pending_io_list, pending_socket_io, writable_requested, next_id,
                   sends, error_indicated, epoch, wire>>

Close ==
    /\ CanCall("close") /\ ~destroyed
    /\ CloseCall(FALSE)

\* wsio_destroy closes the IO (if it is not NOT_OPEN) and frees the instance.
Destroy ==
    /\ CanCall("destroy") /\ ~destroyed
    /\ IF io_state = "NOT_OPEN"
       THEN /\ destroyed' = TRUE
            /\ stack' = Entered
            /\ UNCHANGED <<io_state, pending_io_list, pending_socket_io, ws_context,
                           writable_requested, next_id, sends, completions,
                           open_results, error_indicated, epoch, wire>>
       ELSE CloseCall(TRUE)

\* Back from on_io_open_complete(IO_OPEN_CANCELLED): tear down.
CloseTeardown ==
    /\ ~Quiescent
    /\ Last(stack).pc = "c_teardown"
    /\ Teardown(Last(stack).destroying)
    /\ stack' = Front(stack)
    /\ UNCHANGED <<pending_io_list, pending_socket_io, writable_requested, next_id,
                   sends, completions, open_results, error_indicated, epoch, wire>>

\* Back from on_send_complete(IO_SEND_CANCELLED): free the item, list_remove
\* it (result ignored), and go round the loop again.
CloseFree ==
    /\ ~Quiescent
    /\ Last(stack).pc = "c_free"
    /\ LET f == Last(stack)
           rest == Remove(pending_io_list, f.item)
       IN /\ sends' = [sends EXCEPT ![f.item].frees = @ + 1]
          /\ pending_io_list' = rest
          /\ DrainFrom(rest, f.destroying, Front(stack))
    /\ UNCHANGED <<pending_socket_io, writable_requested, next_id, open_results,
                   error_indicated, epoch, wire>>

-----------------------------------------------------------------------------
(* on_ws_callback, entered from lws_service inside wsio_dowork, which      *)
(* services the context only while the IO is OPEN or OPENING.              *)

\* Events arrive only on a connection the engine has not closed.
Serviced ==
    /\ Quiescent /\ ~destroyed
    /\ io_state \in {"OPEN", "OPENING"}
    /\ ~ws_context.wsi_closed

\* Fault variant of EstablishedWhileOpening: the state is not checked.
EstablishedIgnoringState ==
    /\ Serviced
    /\ io_state' = "OPEN"
    /\ OpenComplete("OK")
    /\ UNCHANGED <<pending_io_list, pending_socket_io, ws_context, writable_requested,
                   stack, destroyed, next_id, sends, completions, error_indicated,
                   epoch, wire>>

\* LWS_CALLBACK_CLIENT_ESTABLISHED while an open is pending.
EstablishedWhileOpening ==
    /\ Serviced
    /\ io_state = "OPENING"
    /\ io_state' = "OPEN"
    /\ OpenComplete("OK")
    /\ UNCHANGED <<pending_io_list, pending_socket_io, ws_context, writable_requested,
                   stack, destroyed, next_id, sends, completions, error_indicated,
                   epoch, wire>>

\* LWS_CALLBACK_CLIENT_ESTABLISHED or _CONNECTION_ERROR when already OPEN:
\* only on_io_error.
UnexpectedEventWhileOpen ==
    /\ Serviced
    /\ io_state = "OPEN"
    /\ error_indicated' = TRUE
    /\ UNCHANGED <<io_state, pending_io_list, pending_socket_io, ws_context,
                   writable_requested, stack, destroyed, next_id, sends,
                   completions, open_results, epoch, wire>>

\* LWS_CALLBACK_CLIENT_CONNECTION_ERROR while an open is pending:
\* on_io_open_complete(IO_OPEN_ERROR), then (ConnectionErrorTeardown)
\* lws_context_destroy and NOT_OPEN.
\* Fault variant of ConnectionErrorTearsDown: OPEN falls into the OPENING case.
ConnectionErrorTearsDownWhenOpen(s) == s \in {"OPENING", "OPEN"}

ConnectionErrorTearsDown(s) == s = "OPENING"

ConnectionErrorWhileOpening ==
    /\ Serviced
    /\ ConnectionErrorTearsDown(io_state)
    /\ OpenComplete("ERROR")
    /\ stack' = <<Frame("ce_teardown", 0, FALSE)>>
    /\ UNCHANGED <<io_state, pending_io_list, pending_socket_io, ws_context,
                   writable_requested, destroyed, next_id, sends, completions,
                   error_indicated, epoch, wire>>

ConnectionErrorTeardown ==
    /\ ~Quiescent
    /\ Last(stack).pc = "ce_teardown"
    /\ DestroyContext
    /\ io_state' = "NOT_OPEN"
    /\ stack' = Front(stack)
    /\ UNCHANGED <<pending_io_list, pending_socket_io, writable_requested, destroyed,
                   next_id, sends, completions, open_results, error_indicated,
                   epoch, wire>>

\* LWS_CALLBACK_CLIENT_WRITEABLE, delivered once per writable request.  A
\* request is only outstanding while a write is queued, so the handler's
\* empty-list case (it does nothing) is not a step of the model.
Writeable ==
    /\ Serviced
    /\ writable_requested
    /\ writable_requested' = FALSE

\* Allocating the padded lws buffer fails, or lws_write returns a negative
\* value: on_send_complete(IO_SEND_ERROR), then (WriteDone) fail-stop if the
\* item was partially sent and remove_pending_io.
WriteFailed ==
    /\ Writeable
    /\ pending_io_list # <<>>
    /\ SendComplete(Head(pending_io_list), "ERROR")
    /\ stack' = <<Frame("w_failed", Head(pending_io_list), FALSE)>>
    /\ UNCHANGED <<io_state, pending_io_list, pending_socket_io, ws_context,
                   destroyed, next_id, sends, open_results, error_indicated,
                   epoch, wire>>

\* lws_write accepts n < size bytes: the bytes are moved down by memmove and
\* the item stays at the head; a new writable request is made, its result
\* ignored.
WritePartial ==
    /\ Serviced
    /\ writable_requested
    /\ pending_io_list # <<>>
    /\ LET id == Head(pending_io_list)
           p == pending_socket_io[id]
       IN \E n \in 0..(p.size - 1), renotified \in Notified("writeable") :
            /\ Len(wire) + n <= MaxWire
            /\ wire' = wire \o SubSeq(p.bytes, 1, n)
            /\ pending_socket_io' = [pending_socket_io EXCEPT ![id].bytes = MemMove(p.bytes, n)]
            /\ writable_requested' = renotified
    /\ UNCHANGED <<io_state, pending_io_list, ws_context, stack, destroyed, next_id,
                   sends, completions, open_results, error_indicated, epoch>>

\* lws_write accepts the whole buffer: on_send_complete(IO_SEND_OK), then
\* (WriteDone) free and list_remove.
WriteFull ==
    /\ Writeable
    /\ pending_io_list # <<>>
    /\ LET id == Head(pending_io_list)
           p == pending_socket_io[id]
       IN /\ wire' = wire \o p.bytes
          /\ SendComplete(id, "OK")
          /\ stack' = <<Frame("w_sent", id, FALSE)>>
    /\ UNCHANGED <<io_state, pending_io_list, pending_socket_io, ws_context,
                   destroyed, next_id, sends, open_results, error_indicated, epoch>>

\* Fault variant of Renotify: no new writable request is made.
RenotifyNever == writable_requested' = writable_requested

\* The end of the WRITEABLE handler: while the list is not empty another
\* writable request is made, its result ignored.
Renotify ==
    \E renotified \in Notified("writeable") :
        writable_requested' =
            (writable_requested \/ (pending_io_list' # <<>> /\ renotified))

\* Back from on_send_complete in the WRITEABLE handler: after a failure, a
\* partially sent item moves the IO to ERROR; the item is freed and
\* removed; if the list is still not empty another writable request is
\* made, its result ignored.
WriteDone ==
    /\ ~Quiescent
    /\ Last(stack).pc \in {"w_sent", "w_failed"}
    /\ LET f == Last(stack)
           failStop == f.pc = "w_failed" /\ pending_socket_io[f.item].is_partially_sent
       IN /\ RemovePendingIo(f.item, failStop)
          /\ Renotify
    /\ stack' = Front(stack)
    /\ UNCHANGED <<pending_socket_io, ws_context, destroyed, next_id, completions,
                   open_results, epoch, wire>>

\* The engine closes an established connection (LWS_CALLBACK_CLOSED, or
\* any other reason on_ws_callback does not list): the default case does
\* nothing, so the IO stays OPEN and no callback tells the caller.
ConnectionClosedIgnored ==
    /\ EngineMayClose
    /\ Serviced
    /\ io_state = "OPEN"
    /\ ws_context' = [ws_context EXCEPT !.wsi_closed = TRUE]
    /\ UNCHANGED <<io_state, pending_io_list, pending_socket_io, writable_requested,
                   stack, destroyed, next_id, sends, completions, open_results,
                   error_indicated, epoch, wire>>

\* After wsio_destroy nothing more happens.
Terminated ==
    /\ destroyed /\ Quiescent
    /\ UNCHANGED vars

Next ==
    \/ Open \/ OpenConnectFailed \/ Send \/ Close \/ Destroy
    \/ CloseTeardown \/ CloseFree
    \/ EstablishedWhileOpening \/ UnexpectedEventWhileOpen
    \/ ConnectionErrorWhileOpening \/ ConnectionErrorTeardown
    \/ WriteFailed \/ WritePartial \/ WriteFull \/ WriteDone
    \/ ConnectionClosedIgnored
    \/ Terminated

Spec == Init /\ [][Next]_vars

\* Fairness.  The code after a caller callback returns always runs
\* (WriteDone, CloseFree, CloseTeardown, ConnectionErrorTeardown).  The
\* caller keeps calling wsio_dowork (spec: the caller drives the IO), and
\* while a write is requested on a live connection the engine eventually
\* delivers WRITEABLE and lws_write eventually takes a whole buffer
\* (WriteFull).  The caller's own calls, and the engine's other events and
\* failures, are not fair: they may never happen.
Fairness ==
    /\ WF_vars(WriteDone) /\ WF_vars(CloseFree) /\ WF_vars(CloseTeardown)
    /\ WF_vars(ConnectionErrorTeardown)
    /\ WF_vars(WriteFull)

FairSpec == Spec /\ Fairness

-----------------------------------------------------------------------------
(* Properties                                                              *)

Results == {"OK", "ERROR", "CANCELLED"}

TypeOK ==
    /\ io_state \in IoStates
    /\ pending_io_list \in Seq(Ids)
    /\ \A id \in Ids :
        LET p == pending_socket_io[id] IN
        /\ p.size \in Sizes \cup {0}
        /\ p.bytes \in Seq(ByteLabels)
        /\ Len(p.bytes) = p.size
        /\ p.is_partially_sent \in BOOLEAN
    /\ ws_context \in [live : BOOLEAN, destroys : Nat, wsi_closed : BOOLEAN]
    /\ writable_requested \in BOOLEAN
    /\ stack \in Seq([pc : Pcs, item : Ids \cup {0}, destroying : BOOLEAN, nested : BOOLEAN])
    /\ Len(stack) <= MaxDepth
    /\ destroyed \in BOOLEAN
    /\ next_id \in 1..(MaxSends + 1)
    /\ sends \in [Ids -> [ret : {"none", "ok", "fail"}, session : 0..MaxOpens, frees : Nat]]
    /\ completions \in Seq([id : Ids, result : Results])
    /\ open_results \in Seq(Results)
    /\ error_indicated \in BOOLEAN
    /\ epoch \in 0..MaxOpens
    /\ wire \in Seq(ByteLabels)

Queued(id) == id \in ToSet(pending_io_list)
CompletionCount(id) == Cardinality({k \in DOMAIN completions : completions[k].id = id})

\* The bytes the id-th wsio_send handed over, and those lws_write took of them.
Payload(id) == [k \in 1..pending_socket_io[id].size |-> <<id, k>>]
SentOf(id) == SelectSeq(wire, LAMBDA b : b[1] = id)

\* Between calls, a write queued by wsio_send is still in the pending IO
\* list exactly until on_send_complete has been called for it once and its
\* buffer freed once (wsio_send, the WRITEABLE handler, wsio_close).
WriteRetiredOnce ==
    Quiescent =>
        \A id \in 1..(next_id - 1) :
            IF Queued(id)
            THEN CompletionCount(id) = 0 /\ sends[id].frees = 0
            ELSE CompletionCount(id) = 1 /\ sends[id].frees = 1

\* on_send_complete is called in the order the writes were queued by
\* wsio_send, whether they complete, fail or are cancelled by wsio_close.
CompletionsInSendOrder ==
    \A k1, k2 \in DOMAIN completions :
        k1 < k2 => completions[k1].id < completions[k2].id

\* A pending IO only exists in the open session that queued it, while the
\* IO is OPEN or ERROR and the instance is alive: wsio_close, the
\* CONNECTION_ERROR handler and wsio_destroy leave none behind.
NoStaleWrites ==
    \A id \in ToSet(pending_io_list) :
        /\ io_state \in {"OPEN", "ERROR"}
        /\ ~destroyed
        /\ sends[id].session = epoch

\* The instance owns a live lws context exactly while it is not NOT_OPEN and
\* not destroyed, and lws_context_destroy is never called twice on one
\* context (wsio_open, wsio_close, CONNECTION_ERROR, wsio_destroy).
SessionOwnership ==
    /\ ws_context.destroys <= 1
    /\ Quiescent => (ws_context.live <=> (~destroyed /\ io_state # "NOT_OPEN"))

\* Every successful wsio_open gets exactly one on_io_open_complete: none
\* while OPENING, one once the open has succeeded, failed or been cancelled
\* by wsio_close.
OpenCompletedOnce ==
    Quiescent /\ epoch > 0 =>
        Len(open_results) = IF io_state = "OPENING" THEN 0 ELSE 1

\* lws_write sees each queued buffer's bytes once, in order, writes in send
\* order, and a write reported IO_SEND_OK was handed over whole.
WireFaithful ==
    /\ IsSorted(wire, LAMBDA a, b : a[1] <= b[1])
    /\ \A id \in 1..(next_id - 1) :
        /\ IsPrefix(SentOf(id), Payload(id))
        /\ (\E k \in DOMAIN completions : completions[k] = [id |-> id, result |-> "OK"])
              => SentOf(id) = Payload(id)

\* A write that fails after part of it went out leaves the IO in ERROR for
\* the rest of that open session, never OPEN (WRITEABLE handler).
PartialFailureStopsIO ==
    Quiescent =>
        \A k \in DOMAIN completions :
            LET id == completions[k].id IN
            /\ completions[k].result = "ERROR"
            /\ sends[id].session = epoch
            /\ Len(SentOf(id)) > 0
            => io_state # "OPEN"

\* wsio_destroy frees the instance only once no handler is still running
\* on it: neither wsio_close nor on_ws_callback has code left to run after
\* a callback inside which the caller destroyed the IO.
InstanceOutlivesHandlers == destroyed => Quiescent

\* Liveness: a write queued by wsio_send eventually gets its
\* on_send_complete (sent, failed or cancelled), without the caller doing
\* anything but keep calling wsio_dowork: the WRITEABLE handler re-requests
\* WRITEABLE while writes remain queued.
WriteEventuallyCompletes ==
    \A id \in Ids : Queued(id) ~> CompletionCount(id) > 0

-----------------------------------------------------------------------------
(* Refinement of WsioAbstract.  A write leaves the abstract queue when its *)
(* on_send_complete is called, before the code frees and removes it.  A     *)
(* handler suspended in a callback is already where its continuation will  *)
(* take it: a close draining the list is "closing", an open that was        *)
(* cancelled or failed is "closed".                                        *)

AbsStateOf(s) ==
    CASE s = "NOT_OPEN" -> "closed"
      [] s = "OPENING"  -> "opening"
      [] s = "OPEN"     -> "open"
      [] s = "ERROR"    -> "failed"

AbsState ==
    IF Quiescent THEN AbsStateOf(io_state)
    ELSE CASE Last(stack).pc = "c_free" -> "closing"
           [] Last(stack).pc \in {"ce_teardown", "c_teardown"} -> "closed"
           [] OTHER -> AbsStateOf(io_state)

AbsQueue == SelectSeq(pending_io_list, LAMBDA id : CompletionCount(id) = 0)

Abs == INSTANCE WsioAbstract
        WITH state <- AbsState, queue <- AbsQueue, done <- completions,
             opened <- open_results, next <- next_id

\* Wsio implements the abstract IO: every step of wsio_open, wsio_send,
\* wsio_close, wsio_destroy and of the lws callback handler is a step of
\* WsioAbstract or leaves its state alone.
AbstractSpec == Abs!ASpec

\* Under the fairness the caller and the engine provide (FairSpec), Wsio
\* also keeps the abstract IO's promise that queued writes complete and a
\* close in progress finishes.
AbstractFairSpec == Abs!AFairSpec

=============================================================================
