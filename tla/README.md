# TLA+ models of the WebSocket IO adapter (`src/src/wsio.c`)

`wsio.c` adapts libwebsockets (lws) to the uAMQP IO interface
(`wsio_create / destroy / open / close / send / dowork`). It is a single-threaded,
callback-driven component: the caller pumps `wsio_dowork`, which calls
`lws_service`, which re-enters `on_ws_callback` synchronously; that callback in
turn calls the caller's callbacks.

## 1. Inventory

### Components

| Component | Code | State it keeps | Operations |
|---|---|---|---|
| Connection state machine | `wsio_open`, `wsio_close`, `wsio_destroy`, `wsio_dowork` (l. 500–774) | `io_state` ∈ NOT_OPEN/OPENING/OPEN/ERROR (CLOSING is declared, never used), `ws_context`, `wsi`, registered callbacks and their context | open, close, destroy, dowork |
| Pending-write queue | `wsio_send`, `add_pending_io`, `remove_pending_io` (l. 75–129, 701–756) | `pending_io_list` of `PENDING_SOCKET_IO {bytes, size, on_send_complete, context, is_partially_sent}` | send (enqueue + writable request), dequeue on completion, drain on close |
| Event dispatcher | `on_ws_callback` (l. 141–351) | none of its own; mutates the two above | ESTABLISHED, CONNECTION_ERROR, WRITEABLE, RECEIVE, LOAD_EXTRA_CLIENT_VERIFY_CERTS |
| Instance construction | `wsio_create` (l. 353–498) | owned copies of host, relative_path, protocol_name, trusted_ca; the `protocols` table; the list | create with full rollback on each allocation failure |
| Trust-anchor injection | LOAD_EXTRA_CLIENT_VERIFY_CERTS case (l. 300–344) | the OpenSSL X509 store (engine's) | read every PEM certificate in `trusted_ca`, add to store |
| libwebsockets / OpenSSL | external | — | the environment: event order, `lws_write` result, failures |

### How they interact

* Caller → instance: the five calls plus `dowork`. All calls must be serialised,
  but nothing stops a caller from calling `wsio_close` or `wsio_send` from
  inside one of its own callbacks (`on_send_complete`, `on_io_open_complete`,
  `on_io_error`) — and the upper uAMQP layers do exactly that on errors.
* `wsio_dowork` → `lws_service` → `on_ws_callback` → caller callbacks: every
  engine event is handled inside the caller's `dowork`.
* `wsio_send` → `lws_callback_on_writable` → (later) WRITEABLE: the queue is
  drained one item per WRITEABLE event, re-requesting while items remain.

### What is hard

* **Re-entrance.** Several handlers call a caller callback and then continue
  using state the callback may have changed (the completed item, the context).
  This is the only "interleaving" a single-threaded program has, and no unit
  test of the file exercises it.
* **Partial writes.** `lws_write` may accept fewer bytes than asked; the code
  memmoves the buffer and retries on the next WRITEABLE.
* **Failure paths.** allocation failure of the lws buffer, negative `lws_write`,
  failing `lws_callback_on_writable`, failing `lws_client_connect`, events that
  arrive in the wrong state.
* **Teardown.** `wsio_close` must drain the queue, cancel a pending open and
  destroy the context exactly once; `wsio_destroy` must do it implicitly.

### Properties that make each component correct

* Queue: every accepted write completes exactly once, is freed exactly once,
  in send order; the bytes reach `lws_write` once, in order; no write survives
  its session; a failed `wsio_send` leaves nothing behind.
* State machine: one open-complete per successful open; the context is owned
  exactly while the IO is not NOT_OPEN, destroyed exactly once; a failure after a
  partial write stops the IO (ERROR).
* Liveness: every queued write eventually completes, and a close in progress
  finishes, if the caller keeps calling `wsio_dowork` and the engine keeps
  delivering requested events (the fair abstract IO `AFairSpec`).
* Lifetime: the instance is not freed while a handler of it still runs.
* Abstraction: the whole adapter behaves as a simple IO (`WsioAbstract`).
* Construction: a failed `wsio_create` frees everything it allocated;
  `wsio_destroy` frees everything once.
* Trust anchors: every certificate of the chain is added, and a NULL
  `trusted_ca` is never read.

## 2. Modules

| Module | Models | Checked by |
|---|---|---|
| `Wsio` (+ `MCWsio`) | state machine, queue, dispatcher events ESTABLISHED / CONNECTION_ERROR / WRITEABLE / engine close, re-entrant callbacks (`wsio_close`, `wsio_send`, `wsio_destroy` from inside callbacks), liveness under fairness | `reentrant_send`, `liveness` and six violation runs |
| `WsioAbstract` | the promise of spec §3–4 as an abstract IO: open → one open-complete; send → exactly one completion, from the head of a FIFO; close cancels | `reentrant_send` (property `AbstractSpec`, a refinement mapping in `Wsio`) |
| `WsioCreate` (+ `MCWsioCreate`) | `wsio_create` / `wsio_destroy` as an allocation chain with the rollback of every failure path | `create` |
| `WsioCerts` (+ `MCWsioCerts`) | LOAD_EXTRA_CLIENT_VERIFY_CERTS: BIO set-up, NULL `trusted_ca`, the PEM loop as a RECURSIVE operator | `certs`, `certs_duplicate`, `certs_null` |

Still open: RECEIVE (no state of the IO changes; only the NULL `on_bytes_received` hazard), the engine itself.

## 3. The `Wsio` module

### State

| Variable | Code |
|---|---|
| `io_state` | `wsio_instance->io_state` |
| `pending_io_list` | the `LIST_HANDLE` of pending IOs, as a sequence of write ids |
| `pending_socket_io[id]` | the `PENDING_SOCKET_IO` of that write: `bytes` (a sequence of byte labels `<<id, k>>`), `size`, `is_partially_sent` |
| `ws_context` | the lws context: `live`, how many times `lws_context_destroy` hit it, and `wsi_closed` (the engine has closed the connection) |
| `writable_requested` | an `lws_callback_on_writable` request is outstanding in the engine |
| `stack` | handlers suspended inside a caller callback (see below) |
| `destroyed` | `wsio_destroy` has freed the instance |

Ghost variables record what the caller and the engine observed: `sends`
(what `wsio_send` returned, the open session, how many times the buffer was
freed), `completions` (every `on_send_complete` call), `open_results`
(`on_io_open_complete` calls of the current session), `error_indicated`,
`epoch` (successful opens), `wire` (every byte given to `lws_write`).

### Re-entrance as a call stack

A handler that calls a caller callback and still has work to do afterwards is
split at that callback. The first action performs the code up to and including
the callback and pushes a frame naming the continuation (`w_sent`, `w_failed`,
`ce_teardown`, `c_teardown`, `c_free`) and the item it holds. While that frame
is on top, the caller may make one nested call (`wsio_close`, `wsio_send` or
`wsio_destroy`, chosen by `NestedCalls`) if `MaxDepth = 2`; the nested call may itself push a
frame. Then the continuation action runs the rest of the handler with the
item it captured before the callback — exactly what the C code does with its
local `pending_socket_io` / `first_pending_io`. With `MaxDepth = 1` every
handler runs to completion before anything else happens.

Callbacks after which the code does nothing more (open-complete OK in
ESTABLISHED, `on_io_error`, `on_io_close_complete`) are not split: a nested
call there is equivalent to the same call made after the handler returns.

### Actions

| Action | Code |
|---|---|
| `Open`, `OpenConnectFailed` | `wsio_open`: success; `lws_client_connect` failure (context destroyed again). `lws_create_context` failure changes nothing. |
| `Send` | `wsio_send` + `add_pending_io`: copy, append, `lws_callback_on_writable` success or failure |
| `Close`, `CloseCall`, `CloseTeardown`, `CloseFree`, `DrainFrom`, `Teardown` | `wsio_close`: cancel the open or drain the list item by item, then `lws_context_destroy`, NOT_OPEN |
| `Destroy` | `wsio_destroy`: close if not NOT_OPEN, then free the instance |
| `EstablishedWhileOpening`, `UnexpectedEventWhileOpen` | ESTABLISHED / CONNECTION_ERROR cases |
| `ConnectionErrorWhileOpening`, `ConnectionErrorTeardown` | CONNECTION_ERROR while OPENING |
| `WriteFailed`, `WritePartial`, `WriteFull`, `WriteDone`, `Renotify` | WRITEABLE: buffer allocation failure or negative `lws_write`; partial write with memmove; full write; the code after `on_send_complete` (`remove_pending_io`, re-request of WRITEABLE with its result ignored) |
| `ConnectionClosedIgnored` | the `default:` case: the engine closes an established connection (LWS_CALLBACK_CLOSED); nothing changes in the IO, but the engine delivers no more events on it |

The engine is a liberal environment: while the context is serviced
(`wsio_dowork` with OPEN or OPENING) it may deliver ESTABLISHED or
CONNECTION_ERROR at any time, and WRITEABLE whenever one was requested;
`lws_write` may take 0..size-1 bytes, all of them, or fail.
`NotifyFailures` says where `lws_callback_on_writable` may fail (in
`wsio_send`, in the WRITEABLE handler); `EngineMayClose` lets the engine close
an established connection. After such a close the instance still holds the
freed `wsi`; a later `wsio_send` calls `lws_callback_on_writable` on it
(l. 741), undefined behaviour modelled as either result.

### Fairness

`Spec` assumes nothing. `FairSpec` adds weak fairness of
* the continuations `WriteDone`, `CloseFree`, `CloseTeardown`,
  `ConnectionErrorTeardown`: the code after a callback returns always runs;
* `WriteFull`: while a write is requested on a live connection, a caller that
  keeps calling `wsio_dowork` (spec §5: pacing is the caller's
  responsibility) eventually gets WRITEABLE from the engine, and `lws_write`
  eventually takes a whole buffer.

The caller's own calls, and the engine's other events and failures, get no
fairness: they may never happen.

`WsioAbstract!AFairSpec` promises the matching fairness of the abstract IO:
a queued write of an open IO completes (`AComplete`) and a close that has
begun cancels the queue and closes (`ACancelNext`). The `liveness` run checks
that `FairSpec` implements `AFairSpec` (`AbstractFairSpec`).

### Refinement

`AbsState`, `AbsQueue` map `Wsio` onto `WsioAbstract`: a write leaves the
abstract queue when its `on_send_complete` is called (the code frees and
removes it only afterwards); a handler suspended in a callback maps to where
its continuation leads (`c_free` → "closing", `c_teardown`/`ce_teardown` →
"closed"). `completions`, `open_results` and `next_id` map directly. The
abstract IO accepts writes while "closing" because a callback of the drain
loop may call `wsio_send` with the IO still OPEN; that write is cancelled
with the rest.

### Runs

`MCWsio`: 3 writes of 1 or 2 bytes, 2 open sessions, partial writes while
fewer than 5 bytes went to `lws_write`. Three writes are enough for two queued
behind a partially written one, and for a close with several items pending;
two sessions let a write of session 1 be confused with session 2. Liveness
runs use the same bounds; `liveness` also lets callbacks call `wsio_send`. Four writes (with a 6-byte partial-write budget) give
26.6M distinct states for `reentrant_send` (checked once: all its properties hold, in 5 min 38 s); three
already reach every queue shape the handlers distinguish (empty, one item,
an item behind a partially written head).

| Run | Expect | Shows |
|---|---|---|
| `reentrant_send` | pass (1.09M states) | with callbacks that may call `wsio_send` or not call back at all: `WriteRetiredOnce`, `CompletionsInSendOrder`, `NoStaleWrites`, `SessionOwnership`, `OpenCompletedOnce`, `TypeOK`, and `AbstractSpec`: `Wsio` refines `WsioAbstract` |
| `liveness` | pass (92K states) | `AbstractFairSpec`: under `FairSpec`, `Wsio` implements the fair abstract IO, when `lws_callback_on_writable` never fails and the engine never drops the connection |
| `lost_writable` | violation of `WriteEventuallyCompletes` | a failed writable request (result ignored at l. 284, or a failing `wsio_send` at l. 741) strands the queue |
| `engine_closed` | violation of `WriteEventuallyCompletes` | an engine close of an established connection is ignored (l. 346): IO stays OPEN, writes never complete, no error raised |
| `reentrant_close` | violation of `WriteRetiredOnce` | close from inside `on_send_complete(CANCELLED)` cancels and frees the same write twice |
| `reentrant_destroy` | violation of `InstanceOutlivesHandlers` | `wsio_destroy` from inside `on_io_open_complete(CANCELLED)` during an outer `wsio_destroy` (l. 520) frees the instance; the outer call then runs on freed memory |
| `partial_wire` | violation of `WireFaithful` | after a partial write, stale bytes are sent again (size never shrinks) |
| `partial_failstop` | violation of `PartialFailureStopsIO` | `is_partially_sent` is never set, so the IO never goes to ERROR |
| `create` | pass | `FreedExactlyOnce`: any allocation failure of `wsio_create` is rolled back exactly; `wsio_destroy` frees everything once |
| `certs` | pass | `AnchorsTrusted`, `CTypeOK`: with an OpenSSL that accepts duplicates, every certificate of `trusted_ca` ends up in the store |
| `certs_duplicate` | violation of `AnchorsTrusted` | when a duplicate add fails (OpenSSL < 1.1.1), the loop stops and later anchors are silently dropped |
| `certs_null` | violation of `NullCaNeverRead` | without a `trusted_ca` (optional per spec §6) the handler calls `strlen`/`BIO_puts` on NULL (l. 316) at the first `wsio_open` |

Every property of a passing run has a fault variant (an operator defined just
before the one it replaces) that a plausible bug would produce, and each is
reported violated when substituted.

## 4. `WsioCreate`

`phase`, `allocs`, `frees` per handle (two handles). `Create` picks, with or
without a `trusted_ca`, either full success or the k-th allocation failing;
`Rollback` is the set each failure path of the code frees, read off the code
line by line, not derived from the order. `Destroy` is `wsio_destroy`'s frees
(`free(NULL)` of an absent `trusted_ca` is not counted).

## 5. `WsioCerts`

`trusted_ca` is `Null` or a sequence of up to three PEM blocks over two
certificates (model values, symmetric). Each `wsio_open` builds a fresh SSL
context whose store starts with any subset of the certificates (the engine's
default anchors) and runs the handler once: `BIO_new` may fail, a NULL
`trusted_ca` is read by `strlen` (outcome "crashed"), `BIO_puts` may write
short, then `PemLoop` (RECURSIVE) reads blocks until the end, a block that does
not parse, or a failed `X509_STORE_add_cert`. `leaked` counts the X509 objects
never freed. `AnchorsTrusted` compares the store with a closed-form reference
(`CertsOf`: the engine's anchors plus every certificate of the blob).

`NullCaNeverRead` (run `certs_null`) says the handler never reads a NULL
`trusted_ca`; it is violated in one step at the first `wsio_open` of an
instance created without one (l. 316). Every certificate read also leaks
(l. 322): `leaked` counts them, but no property is stated about it, since
the leak is unconditional and the store keeps its own reference.

## 6. Not modelled

* RECEIVE: it forwards bytes to `on_bytes_received` and changes no state of
  the IO; callback pointers (and so a NULL `on_bytes_received`) are not data
  of the model.
* Allocation failures that change nothing (`add_pending_io`, `lws_create_context`).
* Payload contents (bytes are labels), strings of the configuration.
* libwebsockets' own behaviour, e.g. destroying a context from inside its own
  service callback, or what `lws_callback_on_writable` does on a closed wsi.
