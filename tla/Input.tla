-------------------------------- MODULE Input --------------------------------
(***************************************************************************)
(* The way of a key from the window to an application: the host's event    *)
(* queue, NEMU's keyboard (device/device.c, device/keyboard.c), the        *)
(* abstract machine's input device (ioe/input.c), the file /dev/events of  *)
(* Nanos-lite (device.c), NDL_PollEvent and miniSDL's event.c.  The guest  *)
(* and the user of the window act independently; NEMU's loop looks at the  *)
(* window between any two instructions of the guest.                       *)
(***************************************************************************)
EXTENDS Integers, Sequences, SequencesExt

CONSTANTS KeyName,         \* the names of the AM's keys, KeyName[code]
          SdlName,         \* the names of miniSDL's keys
          Unmapped,        \* scancodes without an entry in keymap
          KEY_QUEUE_LEN,
          MaxHost          \* bound on events waiting in the host's queue

Codes == 1 .. Len(KeyName)
NONE == 0

\* The names are sequences of letters, and both tables hold the same ones.
ASSUME InputAssumption ==
    /\ KeyName \in Seq(Seq(STRING)) /\ SdlName \in Seq(Seq(STRING))
    /\ IsInjective(KeyName) /\ IsInjective(SdlName)
    /\ ToSet(KeyName) = ToSet(SdlName)
    /\ KEY_QUEUE_LEN \in Nat \ {0, 1} /\ MaxHost \in Nat
    /\ Unmapped \intersect Codes = {}

\* An event of the host names a key by its code if keymap has it.
Scancodes == Codes \union Unmapped
Event == [key : Codes, down : BOOLEAN]
Nothing == [key |-> NONE, down |-> FALSE]

VARIABLES pressed,     \* the keys the user holds down
          host,        \* the host's event queue
          running,     \* nemu_state is RUNNING
          updating,    \* NEMU is in the loop of device_update
          key_queue, key_f, key_r,
          asserted,    \* the assertion of key_enqueue has failed
          code,        \* what the guest has read from the keyboard; Nothing if it has not
          keystates,   \* miniSDL's array, by index of SdlName
          dropped      \* history: mapped keys whose last event was thrown away

inputVars == <<pressed, host, running, updating, key_queue, key_f, key_r, asserted, code,
          keystates, dropped>>

Slots == 0 .. KEY_QUEUE_LEN - 1

InputTypeOK ==
    /\ pressed \subseteq Scancodes
    /\ host \in Seq([key : Scancodes, down : BOOLEAN]) /\ Len(host) <= MaxHost
    /\ running \in BOOLEAN /\ updating \in BOOLEAN /\ asserted \in BOOLEAN
    /\ key_queue \in [Slots -> Event \union {Nothing}] /\ key_f \in Slots /\ key_r \in Slots
    /\ code \in Event \union {Nothing}
    /\ keystates \in [1 .. Len(SdlName) -> BOOLEAN]
    /\ dropped \subseteq Codes

InputInit ==
    /\ pressed = {} /\ host = << >> /\ running = FALSE /\ updating = FALSE
    /\ key_queue = [s \in Slots |-> Nothing] /\ key_f = 0 /\ key_r = 0
    /\ asserted = FALSE /\ code = Nothing
    /\ keystates = [i \in 1 .. Len(SdlName) |-> FALSE]
    /\ dropped = {}

-----------------------------------------------------------------------------
(***************************************************************************)
(* The user.                                                               *)
(***************************************************************************)
Press(k) ==
    /\ Len(host) < MaxHost /\ ~asserted
    /\ pressed' = IF k \in pressed THEN pressed \ {k} ELSE pressed \union {k}
    /\ host' = Append(host, [key |-> k, down |-> k \notin pressed])
    /\ dropped' = dropped \ {k}
    /\ UNCHANGED <<running, updating, key_queue, key_f, key_r, asserted, code, keystates>>

\* A command is given to the debugger: sdb_mainloop throws away what the host
\* has queued.
sdl_clear_event_queue ==
    /\ host' = << >>
    /\ dropped' = dropped \union ({host[i].key : i \in DOMAIN host} \intersect Codes)

cmd_c ==
    /\ ~running /\ ~asserted
    /\ sdl_clear_event_queue
    /\ running' = TRUE
    /\ UNCHANGED <<pressed, updating, key_queue, key_f, key_r, asserted, code, keystates>>

\* A watchpoint or the end of si.
Stop ==
    /\ running /\ ~updating /\ ~asserted
    /\ running' = FALSE
    /\ UNCHANGED <<pressed, host, updating, key_queue, key_f, key_r, asserted, code, keystates, dropped>>

-----------------------------------------------------------------------------
(***************************************************************************)
(* NEMU.                                                                   *)
(***************************************************************************)
device_update ==
    /\ running /\ ~updating /\ ~asserted
    /\ updating' = TRUE
    /\ UNCHANGED <<pressed, host, running, key_queue, key_f, key_r, asserted, code, keystates, dropped>>

After(s) == (s + 1) % KEY_QUEUE_LEN

key_enqueueUnchecked(e) ==
    /\ key_queue' = [key_queue EXCEPT ![key_r] = e]
    /\ key_r' = After(key_r)
    /\ UNCHANGED asserted

\* The assertion comes after the queue has been written.
key_enqueue(e) ==
    /\ key_queue' = [key_queue EXCEPT ![key_r] = e]
    /\ key_r' = After(key_r)
    /\ asserted' = (key_r' = key_f)

send_keyDownOnly(e) ==
    \/ e.key \in Codes /\ e.down /\ key_enqueue(e)
    \/ ~(e.key \in Codes /\ e.down) /\ UNCHANGED <<key_queue, key_r, asserted>>

\* send_key leaves out what keymap does not know.
send_key(e) ==
    \/ e.key \in Codes /\ key_enqueue(e)
    \/ e.key \notin Codes /\ UNCHANGED <<key_queue, key_r, asserted>>

\* One turn of the loop that empties the host's queue.
PollHost ==
    /\ updating /\ host # << >> /\ ~asserted
    /\ send_key(Head(host)) /\ host' = Tail(host)
    /\ UNCHANGED <<pressed, running, updating, key_f, code, keystates, dropped>>

UpdateEnd ==
    /\ updating /\ host = << >> /\ ~asserted
    /\ updating' = FALSE
    /\ UNCHANGED <<pressed, host, running, key_queue, key_f, key_r, asserted, code, keystates, dropped>>

-----------------------------------------------------------------------------
(***************************************************************************)
(* The guest.                                                              *)
(***************************************************************************)
\* i8042_data_io_handler: the load that reads the keyboard takes an event out
\* of the queue.  If there is none the poll returns at once (events_read,
\* NDL_PollEvent), and the guest has changed nothing.
key_dequeue ==
    /\ running /\ ~updating /\ ~asserted /\ code = Nothing
    /\ key_f # key_r
    /\ code' = key_queue[key_f]
    /\ key_f' = After(key_f)
    /\ UNCHANGED <<pressed, host, running, updating, key_queue, key_r, asserted, keystates, dropped>>

\* SDL_PollEvent and SDL_WaitEvent look for the name events_read has written.
\* A comparison of as many letters as the event has would take F for F1.
MatchesPrefix(name, entry) == IsPrefix(name, entry)
Matches(name, entry) == IsPrefix(name, entry) /\ Len(name) = Len(entry)

FirstMatch(name) ==
    CHOOSE i \in DOMAIN SdlName :
        /\ Matches(name, SdlName[i])
        /\ \A j \in 1 .. i - 1 : ~Matches(name, SdlName[j])

SDL_PollEvent ==
    /\ running /\ ~updating /\ ~asserted /\ code # Nothing
    /\ keystates' = [keystates EXCEPT ![FirstMatch(KeyName[code.key])] = code.down]
    /\ code' = Nothing
    /\ UNCHANGED <<pressed, host, running, updating, key_queue, key_f, key_r, asserted, dropped>>

InputNext ==
    \/ \E k \in Scancodes : Press(k)
    \/ cmd_c \/ Stop
    \/ device_update \/ PollHost \/ UpdateEnd
    \/ key_dequeue \/ SDL_PollEvent

InputSpec == InputInit /\ [][InputNext]_inputVars

\* A guest in SDL_WaitEvent polls for ever, NEMU's timer lets device_update
\* through again and again, and between two calls of it the guest executes.
\* The user is slower than the loop of device_update, which finds the host's
\* queue empty some time.
InputFairSpec ==
    /\ InputSpec
    /\ WF_inputVars(PollHost) /\ SF_inputVars(UpdateEnd)
    /\ SF_inputVars(device_update) /\ SF_inputVars(key_dequeue)

-----------------------------------------------------------------------------
(***************************************************************************)
(* Properties                                                              *)
(***************************************************************************)
\* The ring buffer as a sequence.  When the assertion has failed the event in
\* the slot before key_r has overwritten nothing, and all others are there.
Pending ==
    LET len == IF asserted THEN KEY_QUEUE_LEN - 1 ELSE (key_r - key_f) % KEY_QUEUE_LEN
    IN  [k \in 1 .. len |-> key_queue[(key_f + k - 1) % KEY_QUEUE_LEN]]

\* keyboard.c is a queue for one event less than it has slots: nothing is
\* lost, repeated or overtaken while the indices go round, and key_enqueue
\* fails exactly when it is full.
KF == INSTANCE KeyFifo WITH
    Events <- Event, Capacity <- KEY_QUEUE_LEN - 1, queue <- Pending, full <- asserted

IsFifo == KF!Spec

\* Codes, names and indices of the three key tables fit together: when nothing
\* is on its way, miniSDL's array shows as down the keys that the user holds
\* down, except those whose last event was thrown away at the debugger's prompt.
KeysSettle ==
    host = << >> /\ Pending = << >> /\ code = Nothing /\ ~asserted
        => \A k \in Codes \ dropped :
              \A i \in DOMAIN SdlName : SdlName[i] = KeyName[k] => keystates[i] = (k \in pressed)

\* SDL_WaitEvent ends: a key of keymap that the user presses or releases while
\* the program runs gets through both queues to the waiting guest, unless NEMU
\* stops.
WaitEventReturns ==
    (running /\ \E i \in DOMAIN host : host[i].key \in Codes)
        ~> (code # Nothing \/ ~running \/ asserted)

-----------------------------------------------------------------------------
(***************************************************************************)
(* What makes KeysSettle inductive.                                        *)
(***************************************************************************)
Absent(q, k) == \A i \in DOMAIN q : q[i].key # k

\* The last event of key k in queue q, if there is one, says whether k is held.
LastSays(q, k, held) ==
    \A i \in DOMAIN q :
        q[i].key = k /\ (\A j \in DOMAIN q : j > i => q[j].key # k) => (q[i].down <=> k \in held)

\* The newest event of a key on its way is the one that counts, and if there is
\* none miniSDL has had it.
Settling ==
    ~asserted => \A k \in Codes \ dropped :
        /\ LastSays(host, k, pressed)
        /\ Absent(host, k) => LastSays(Pending, k, pressed)
        /\ Absent(host, k) /\ Absent(Pending, k) =>
              IF code.key = k THEN code.down <=> k \in pressed
              ELSE \A i \in DOMAIN SdlName : SdlName[i] = KeyName[k] => (keystates[i] <=> k \in pressed)

InputIInv == InputTypeOK /\ Settling

=============================================================================
