-------------------------- MODULE LeAddressManager --------------------------
(***************************************************************************)
(* The LE address manager of src/gd/hci/le_address_manager.cc: the        *)
(* pause / command / resume protocol between the manager, its registered   *)
(* clients (LeAddressManagerCallback) and the controller.                  *)
(*                                                                         *)
(* Every entry point runs on the single os::Handler thread.  The           *)
(* "BindOnceOn(...).Invoke()" calls POST a task to that handler, so the    *)
(* handler is modelled as a FIFO queue of tasks and each task kind is one  *)
(* action.  Clients receive OnPause/OnResume synchronously on the handler  *)
(* and answer later with AckPause/AckResume, which post again.  Commands   *)
(* handed to enqueue_command_ go to the controller, which completes them   *)
(* in order; each completion posts OnCommandComplete back to the handler.  *)
(*                                                                         *)
(* Addresses are abstracted to numbers: 0 is the empty address, 1 the     *)
(* fixed (public or static) one, and the rotation issued for cached        *)
(* command i sets the fresh address i + 1.                                 *)
(***************************************************************************)
EXTENDS Naturals, Sequences, SequencesExt, FiniteSets

CONSTANTS
    Clients,            \* LeAddressManagerCallback* handles
    PolicyChoices,      \* AddressPolicy values SetPrivacyPolicyForInitiatorAddress may get
    MaxRegistrations,   \* bound on Register calls
    MaxUnregistrations, \* bound on Unregister calls
    MaxFilterUpdates,   \* bound on connect/resolving list mutations
    MaxAlarmFires,      \* bound on firings of address_rotation_alarm_
    LateRegistration,   \* may a client register after a cached command was issued
    EarlyRegistration,  \* may a client register before the policy is set
    MaxTestPolicies,    \* bound on SetPrivacyPolicyForInitiatorAddressForTest calls
    ReplacePolicy       \* may a test call it again, replacing a set policy

Policies == {"USE_PUBLIC_ADDRESS", "USE_STATIC_ADDRESS",
             "USE_NON_RESOLVABLE_ADDRESS", "USE_RESOLVABLE_ADDRESS"}
ASSUME PolicyChoices \subseteq Policies
ASSUME LateRegistration \in BOOLEAN /\ EarlyRegistration \in BOOLEAN
ASSUME ReplacePolicy \in BOOLEAN

ClientState == {"RESUMED", "WAITING_FOR_PAUSE", "PAUSED", "WAITING_FOR_RESUME"}
NotRegistered == "NONE"         \* absent from registered_clients_
EmptyAddress == 0               \* a default-constructed AddressWithType
FixedAddress == 1               \* the fixed_address given with the policy
StaticCmdId == 0                \* the set-random-address posted by the policy setter

VARIABLES
    address_policy,     \* address_policy_: POLICY_NOT_SET until the setter runs
    registered_clients, \* registered_clients_: client -> ClientState, or NONE
    cached_commands,    \* cached_commands_: queue of [type, id]
    le_address,         \* le_address_
    alarm_armed,        \* address_rotation_alarm_ is scheduled
    handler_queue,      \* tasks posted to handler_, run in order
    hci_queue,          \* commands given to enqueue_command_, not yet completed
    controller_address, \* random address the controller last accepted
    client_phase,       \* each client's own view: UNREGISTERED, ACTIVE or PAUSED
    inbox,              \* OnPause/OnResume calls a client has not yet handled
    fatal,              \* "none", or the ASSERT that aborted the process
    used,               \* environment calls consumed, per bound
    next_id,            \* identity of the next cached command
    issued              \* a cached command has reached enqueue_command_

vars == <<address_policy, registered_clients, cached_commands, le_address, alarm_armed,
          handler_queue, hci_queue, controller_address, client_phase, inbox,
          fatal, used, next_id, issued>>
mgr == <<address_policy, registered_clients, cached_commands, le_address, alarm_armed, next_id, issued>>

\* USE_RESOLVABLE_ADDRESS and USE_NON_RESOLVABLE_ADDRESS rotate the address.
Rotating == address_policy \in {"USE_RESOLVABLE_ADDRESS", "USE_NON_RESOLVABLE_ADDRESS"}

\* register_client's test: POLICY_NOT_SET is treated as a rotating policy.
RotatesOnRegister == Rotating \/ address_policy = "POLICY_NOT_SET"

Registered == {c \in Clients : registered_clients[c] # NotRegistered}

Task(op, arg) == [op |-> op, arg |-> arg]

\* The callback of a client that has called Unregister ignores OnPause/OnResume.
Notify(S, call) ==
    [c \in Clients |-> IF c \in S /\ client_phase[c] # "UNREGISTERED"
                          THEN Append(inbox[c], call) ELSE inbox[c]]

-----------------------------------------------------------------------------
(* Manager steps shared by several handlers.                               *)

\* pause_registered_clients: the loop assigns to a copy of each map entry,
\* so the stored state is left as it was; only OnPause is called.
PauseRegisteredClients(rc) ==
    inbox' = Notify({c \in Clients :
                       rc[c] \notin {NotRegistered, "PAUSED", "WAITING_FOR_PAUSE"}},
                    "OnPause")

\* prepare_to_rotate: cache a ROTATE_RANDOM_ADDRESS command and pause.
PrepareToRotate(rc) ==
    /\ cached_commands' = Append(cached_commands,
                                 [type |-> "ROTATE_RANDOM_ADDRESS", id |-> next_id])
    /\ next_id' = next_id + 1
    /\ PauseRegisteredClients(rc)

\* rotate_random_address: rearm the alarm, submit a fresh address and adopt
\* it at once, before the controller confirms it.
RotateRandomAddress(cmd) ==
    IF ~Rotating
    THEN UNCHANGED <<hci_queue, le_address, alarm_armed>>
    ELSE /\ alarm_armed' = TRUE
         /\ hci_queue' = Append(hci_queue, [opcode |-> "LE_SET_RANDOM_ADDRESS",
                                            id |-> cmd.id, addr |-> cmd.id + 1])
         /\ le_address' = cmd.id + 1

\* handle_next_command: ASSERT(!cached_commands_.empty()), pop, issue.
HandleNextCommand ==
    IF cached_commands = <<>>
    THEN /\ fatal' = "handle_next_command"
         /\ UNCHANGED <<cached_commands, hci_queue, le_address, alarm_armed, issued>>
    ELSE LET cmd == Head(cached_commands) IN
         /\ cached_commands' = Tail(cached_commands)
         /\ issued' = TRUE
         /\ UNCHANGED fatal
         /\ IF cmd.type = "ROTATE_RANDOM_ADDRESS"
            THEN RotateRandomAddress(cmd)
            ELSE /\ hci_queue' = Append(hci_queue, [opcode |-> "FILTER_LIST",
                                                    id |-> cmd.id, addr |-> FixedAddress])
                 /\ UNCHANGED <<le_address, alarm_armed>>

-----------------------------------------------------------------------------
(* Handler tasks: each action runs the task at the head of handler_queue   *)
(* and appends whatever it posts.                                          *)

Current == Head(handler_queue)
RunTask(op) == handler_queue # <<>> /\ Current.op = op
Finish(posts) == handler_queue' = Tail(handler_queue) \o posts

\* register_client: map insert (no overwrite), then prepare_to_rotate when
\* the policy rotates or is not set yet.
register_client ==
    /\ RunTask("register_client")
    /\ LET c == Current.arg
           rc == IF registered_clients[c] = NotRegistered
                 THEN [registered_clients EXCEPT ![c] = "RESUMED"]
                 ELSE registered_clients
       IN /\ registered_clients' = rc
          /\ IF RotatesOnRegister
             THEN PrepareToRotate(rc)
             ELSE UNCHANGED <<cached_commands, next_id, inbox>>
    /\ Finish(<<>>)
    /\ UNCHANGED <<le_address, alarm_armed, hci_queue, controller_address,
                   client_phase, fatal, used, issued>>

\* Mutant of unregister_client: the alarm is cancelled on every unregister.
unregister_client_cancel_always ==
    /\ RunTask("unregister_client")
    /\ registered_clients' = [registered_clients EXCEPT ![Current.arg] = NotRegistered]
    /\ alarm_armed' = FALSE
    /\ Finish(<<>>)
    /\ UNCHANGED <<cached_commands, le_address, hci_queue, controller_address,
                   client_phase, inbox, fatal, used, next_id, issued>>

\* unregister_client: erase; cancel the alarm when no client is left.
unregister_client ==
    /\ RunTask("unregister_client")
    /\ registered_clients' = [registered_clients EXCEPT ![Current.arg] = NotRegistered]
    /\ alarm_armed' = IF Registered \ {Current.arg} = {} THEN FALSE ELSE alarm_armed
    /\ Finish(<<>>)
    /\ UNCHANGED <<cached_commands, le_address, hci_queue, controller_address,
                   client_phase, inbox, fatal, used, next_id, issued>>

\* ack_pause: mark PAUSED; when every registered client is PAUSED, issue
\* the next cached command.
ack_pause ==
    /\ RunTask("ack_pause")
    /\ LET c == Current.arg IN
       IF registered_clients[c] = NotRegistered
       THEN /\ fatal' = "ack_pause"
            /\ UNCHANGED <<registered_clients, cached_commands, le_address,
                           alarm_armed, hci_queue, issued>>
       ELSE /\ registered_clients' = [registered_clients EXCEPT ![c] = "PAUSED"]
            /\ IF \A d \in Registered : registered_clients'[d] = "PAUSED"
               THEN HandleNextCommand
               ELSE UNCHANGED <<cached_commands, le_address, alarm_armed,
                                hci_queue, fatal, issued>>
    /\ Finish(<<>>)
    /\ UNCHANGED <<controller_address, client_phase, inbox, used, next_id>>

\* ack_resume: mark RESUMED.
ack_resume ==
    /\ RunTask("ack_resume")
    /\ LET c == Current.arg IN
       IF registered_clients[c] = NotRegistered
       THEN fatal' = "ack_resume" /\ UNCHANGED registered_clients
       ELSE registered_clients' = [registered_clients EXCEPT ![c] = "RESUMED"]
                /\ UNCHANGED fatal
    /\ Finish(<<>>)
    /\ UNCHANGED <<cached_commands, le_address, alarm_armed, hci_queue,
                   controller_address, client_phase, inbox, used, next_id, issued>>

\* The pause_registered_clients task posted by a list mutation.
pause_registered_clients ==
    /\ RunTask("pause_registered_clients")
    /\ PauseRegisteredClients(registered_clients)
    /\ Finish(<<>>)
    /\ UNCHANGED <<registered_clients, cached_commands, le_address, alarm_armed,
                   hci_queue, controller_address, client_phase, fatal, used,
                   next_id, issued>>

\* resume_registered_clients: a non-empty cache is served first; otherwise
\* OnResume to every registered client (stored state again left unchanged).
resume_registered_clients ==
    /\ RunTask("resume_registered_clients")
    /\ IF cached_commands # <<>>
       THEN HandleNextCommand /\ UNCHANGED inbox
       ELSE /\ inbox' = Notify(Registered, "OnResume")
            /\ UNCHANGED <<cached_commands, le_address, alarm_armed, hci_queue,
                           fatal, issued>>
    /\ Finish(<<>>)
    /\ UNCHANGED <<registered_clients, controller_address, client_phase, used, next_id>>

\* The handle_next_command task posted by OnCommandComplete.
handle_next_command ==
    /\ RunTask("handle_next_command")
    /\ HandleNextCommand
    /\ Finish(<<>>)
    /\ UNCHANGED <<registered_clients, controller_address, client_phase, inbox,
                   used, next_id>>

\* The alarm callback: prepare_to_rotate on the handler.
prepare_to_rotate ==
    /\ RunTask("prepare_to_rotate")
    /\ PrepareToRotate(registered_clients)
    /\ Finish(<<>>)
    /\ UNCHANGED <<registered_clients, le_address, alarm_armed, hci_queue,
                   controller_address, client_phase, fatal, used, issued>>

\* The enqueue_command_ task posted by the USE_STATIC_ADDRESS policy setter.
enqueue_command ==
    /\ RunTask("enqueue_command")
    /\ hci_queue' = Append(hci_queue, Current.arg)
    /\ Finish(<<>>)
    /\ UNCHANGED <<registered_clients, cached_commands, le_address, alarm_armed,
                   controller_address, client_phase, inbox, fatal, used,
                   next_id, issued>>

\* OnCommandComplete: a LE_SET_RANDOM_ADDRESS completion under the static
\* policy is ignored; otherwise post resume or handle_next_command
\* depending on the cache as seen now.
OnCommandComplete ==
    /\ RunTask("OnCommandComplete")
    /\ IF Current.arg.opcode = "LE_SET_RANDOM_ADDRESS" /\ address_policy = "USE_STATIC_ADDRESS"
       THEN Finish(<<>>)
       ELSE IF cached_commands = <<>>
            THEN Finish(<<Task("resume_registered_clients", "none")>>)
            ELSE Finish(<<Task("handle_next_command", "none")>>)
    /\ UNCHANGED <<registered_clients, cached_commands, le_address, alarm_armed,
                   hci_queue, controller_address, client_phase, inbox, fatal,
                   used, next_id, issued>>

-----------------------------------------------------------------------------
(* The environment: clients, list mutators, the alarm and the controller.  *)

Post(t) == handler_queue' = Append(handler_queue, t)

\* The body both policy setters share, on the thread that calls them:
\* ASSERT_LOG that no client is registered, set the policy; a fixed address
\* is adopted at once, and the static one is posted to enqueue_command_.
\* A rotating policy gets a new address_rotation_alarm_, which cancels the
\* one it replaces; a fixed policy leaves any alarm scheduled.  The address
\* checks are in LeAddressGeneration.
AdoptPolicy(p) ==
    /\ IF Registered # {}
       THEN /\ fatal' = "registered before policy"
            /\ UNCHANGED <<address_policy, le_address, handler_queue, alarm_armed>>
       ELSE /\ address_policy' = p
            /\ le_address' = IF p \in {"USE_PUBLIC_ADDRESS", "USE_STATIC_ADDRESS"}
                             THEN FixedAddress ELSE le_address
            /\ IF p = "USE_STATIC_ADDRESS"
               THEN Post(Task("enqueue_command", [opcode |-> "LE_SET_RANDOM_ADDRESS",
                                                  id |-> StaticCmdId, addr |-> FixedAddress]))
               ELSE UNCHANGED handler_queue
            /\ alarm_armed' = (alarm_armed /\ p \in {"USE_PUBLIC_ADDRESS", "USE_STATIC_ADDRESS"})
            /\ UNCHANGED fatal
    /\ UNCHANGED <<registered_clients, cached_commands, hci_queue,
                   controller_address, client_phase, inbox, next_id, issued>>

\* SetPrivacyPolicyForInitiatorAddress: ASSERTs the policy is not yet set.
SetPrivacyPolicyForInitiatorAddress(p) ==
    /\ address_policy = "POLICY_NOT_SET"
    /\ AdoptPolicy(p)
    /\ UNCHANGED used

\* SetPrivacyPolicyForInitiatorAddressForTest: the same body without that
\* ASSERT, so a test may replace a policy once no client is registered.
SetPrivacyPolicyForInitiatorAddressForTest(p) ==
    /\ used.test_policy < MaxTestPolicies
    /\ used' = [used EXCEPT !.test_policy = @ + 1]
    /\ AdoptPolicy(p)

\* A client calls Register (the first pause can come before it returns).
Register(c) ==
    /\ client_phase[c] = "UNREGISTERED"
    /\ address_policy # "POLICY_NOT_SET" \/ EarlyRegistration
    /\ used.register < MaxRegistrations
    /\ LateRegistration \/ ~issued
    /\ client_phase' = [client_phase EXCEPT ![c] = "ACTIVE"]
    /\ used' = [used EXCEPT !.register = @ + 1]
    /\ Post(Task("register_client", c))
    /\ UNCHANGED <<mgr, hci_queue, controller_address, inbox, fatal>>

\* A client calls Unregister and stops answering callbacks.
Unregister(c) ==
    /\ client_phase[c] # "UNREGISTERED"
    /\ used.unregister < MaxUnregistrations
    /\ client_phase' = [client_phase EXCEPT ![c] = "UNREGISTERED"]
    /\ used' = [used EXCEPT !.unregister = @ + 1]
    /\ inbox' = [inbox EXCEPT ![c] = <<>>]
    /\ Post(Task("unregister_client", c))
    /\ UNCHANGED <<mgr, hci_queue, controller_address, fatal>>

\* The client handles OnPause: stops its LE activity and calls AckPause.
OnPause(c) ==
    /\ inbox[c] # <<>> /\ Head(inbox[c]) = "OnPause"
    /\ inbox' = [inbox EXCEPT ![c] = Tail(@)]
    /\ client_phase' = [client_phase EXCEPT ![c] = "PAUSED"]
    /\ Post(Task("ack_pause", c))
    /\ UNCHANGED <<mgr, hci_queue, controller_address, fatal, used>>

\* The client handles OnResume: restarts its LE activity and calls AckResume.
OnResume(c) ==
    /\ inbox[c] # <<>> /\ Head(inbox[c]) = "OnResume"
    /\ inbox' = [inbox EXCEPT ![c] = Tail(@)]
    /\ client_phase' = [client_phase EXCEPT ![c] = "ACTIVE"]
    /\ Post(Task("ack_resume", c))
    /\ UNCHANGED <<mgr, hci_queue, controller_address, fatal, used>>

\* AddDeviceToConnectList and the five other list mutators: post the pause,
\* then push the command onto the cache directly.
UpdateFilterList ==
    /\ used.filter < MaxFilterUpdates
    /\ used' = [used EXCEPT !.filter = @ + 1]
    /\ Post(Task("pause_registered_clients", "none"))
    /\ cached_commands' = Append(cached_commands, [type |-> "FILTER_LIST", id |-> next_id])
    /\ next_id' = next_id + 1
    /\ UNCHANGED <<registered_clients, le_address, alarm_armed, hci_queue,
                   controller_address, client_phase, inbox, fatal, issued>>

\* address_rotation_alarm_ expires and posts prepare_to_rotate.
AlarmFires ==
    /\ alarm_armed
    /\ used.alarm < MaxAlarmFires
    /\ alarm_armed' = FALSE
    /\ used' = [used EXCEPT !.alarm = @ + 1]
    /\ Post(Task("prepare_to_rotate", "none"))
    /\ UNCHANGED <<registered_clients, cached_commands, le_address, hci_queue,
                   controller_address, client_phase, inbox, fatal, next_id, issued>>

\* The controller executes the oldest command and reports its completion.
ControllerCompletes ==
    /\ hci_queue # <<>>
    /\ LET cmd == Head(hci_queue) IN
       /\ controller_address' = IF cmd.opcode = "LE_SET_RANDOM_ADDRESS"
                                THEN cmd.addr ELSE controller_address
       /\ Post(Task("OnCommandComplete", cmd))
    /\ hci_queue' = Tail(hci_queue)
    /\ UNCHANGED <<registered_clients, cached_commands, le_address, alarm_armed,
                   client_phase, inbox, fatal, used, next_id, issued>>

-----------------------------------------------------------------------------

\* State after construction: no policy, no client, nothing queued.
Init ==
    /\ address_policy = "POLICY_NOT_SET"
    /\ registered_clients = [c \in Clients |-> NotRegistered]
    /\ cached_commands = <<>>
    /\ le_address = EmptyAddress
    /\ alarm_armed = FALSE
    /\ handler_queue = <<>>
    /\ hci_queue = <<>>
    /\ controller_address = EmptyAddress
    /\ client_phase = [c \in Clients |-> "UNREGISTERED"]
    /\ inbox = [c \in Clients |-> <<>>]
    /\ fatal = "none"
    /\ used = [register |-> 0, unregister |-> 0, filter |-> 0, alarm |-> 0,
               test_policy |-> 0]
    /\ next_id = 1
    /\ issued = FALSE

HandlerStep ==
    \/ register_client \/ unregister_client \/ ack_pause \/ ack_resume
    \/ pause_registered_clients \/ resume_registered_clients
    \/ handle_next_command \/ prepare_to_rotate \/ enqueue_command
    \/ OnCommandComplete

ClientStep(c) == OnPause(c) \/ OnResume(c)

Environment ==
    \/ \E c \in Clients : Register(c) \/ Unregister(c)
    \/ UpdateFilterList

\* A step of the running process.  After a failed ASSERT the process has
\* aborted and nothing moves; only the setters change the policy: the
\* plain one once (it ASSERTs that the policy is not set), the test one
\* again whenever no client is registered.
Live(A) == fatal = "none" /\ A /\ UNCHANGED address_policy

SetPolicy == fatal = "none" /\ \E p \in PolicyChoices : SetPrivacyPolicyForInitiatorAddress(p)

\* Cert tests call the test setter in place of the plain one; only with
\* ReplacePolicy does one call it on a policy already set.
SetPolicyForTest ==
    /\ fatal = "none"
    /\ address_policy = "POLICY_NOT_SET" \/ ReplacePolicy
    /\ \E p \in PolicyChoices : SetPrivacyPolicyForInitiatorAddressForTest(p)

Next ==
    \/ Live(\/ HandlerStep
            \/ \E c \in Clients : ClientStep(c)
            \/ AlarmFires
            \/ ControllerCompletes
            \/ Environment)
    \/ SetPolicy
    \/ SetPolicyForTest

\* The handler thread, the controller, the timer and the clients' own
\* handlers always make progress, and the stack's start-up sets the
\* policy; the callers of Register, Unregister and the list mutators need
\* not act.
Fairness ==
    /\ WF_vars(SetPolicy)
    /\ WF_vars(Live(HandlerStep))
    /\ WF_vars(Live(ControllerCompletes))
    /\ WF_vars(Live(AlarmFires))
    /\ \A c \in Clients : WF_vars(Live(ClientStep(c)))

Spec == Init /\ [][Next]_vars
FairSpec == Spec /\ Fairness

-----------------------------------------------------------------------------
(* Properties                                                              *)

TypeOK ==
    /\ address_policy \in Policies \cup {"POLICY_NOT_SET"}
    /\ registered_clients \in [Clients -> ClientState \cup {NotRegistered}]
    /\ cached_commands \in Seq([type : {"ROTATE_RANDOM_ADDRESS", "FILTER_LIST"},
                                id : Nat])
    /\ le_address \in Nat /\ controller_address \in Nat
    /\ alarm_armed \in BOOLEAN /\ issued \in BOOLEAN
    /\ hci_queue \in Seq([opcode : {"LE_SET_RANDOM_ADDRESS", "FILTER_LIST"},
                          id : Nat, addr : Nat])
    /\ client_phase \in [Clients -> {"UNREGISTERED", "ACTIVE", "PAUSED"}]
    /\ inbox \in [Clients -> Seq({"OnPause", "OnResume"})]
    /\ next_id \in Nat

\* Safety: under a rotating policy, once a cached command has been issued
\* and while some client is registered, the next rotation is always on its
\* way: the alarm is armed, its prepare_to_rotate task is queued, or a
\* ROTATE_RANDOM_ADDRESS command is cached.  Unregistering cancels the
\* alarm only when no client is left; rotate_random_address rearms it.
RotationScheduled ==
    (Rotating /\ issued /\ Registered # {}) =>
        \/ alarm_armed
        \/ \E i \in 1..Len(handler_queue) : handler_queue[i].op = "prepare_to_rotate"
        \/ \E i \in 1..Len(cached_commands) :
               cached_commands[i].type = "ROTATE_RANDOM_ADDRESS"

\* Cached commands given to enqueue_command_ whose completion has not yet
\* been handled: in the hci queue, or completed with OnCommandComplete
\* still waiting in the handler queue.  The policy's static address is not
\* a cached command.
CommandsInFlight ==
    Len(SelectSeq(hci_queue, LAMBDA cmd : cmd.id # StaticCmdId))
    + Len(SelectSeq(handler_queue,
                    LAMBDA t : t.op = "OnCommandComplete" /\ t.arg.id # StaticCmdId))

\* Safety (the spec's invariant): submitted-but-unconfirmed cached commands
\* never exceed 1.  handle_next_command runs only when every registered
\* client has acknowledged its pause, and the next one only after
\* OnCommandComplete.
AtMostOneCommandInFlight == CommandsInFlight <= 1

\* Liveness: every cached command is eventually handed to the controller
\* (a rotation that was prepared does happen).
CachedCommandsDrain == cached_commands # <<>> ~> cached_commands = <<>>

\* Safety: the pause protocol's promise, as the manager records it.  While
\* a command taken from cached_commands_ is at the controller, every
\* client in registered_clients_ is PAUSED: handle_next_command runs only
\* once all of them have acknowledged OnPause, and they are marked RESUMED
\* again only by AckResume, after the completion.  register_client
\* inserts a newcomer as RESUMED whatever is in flight.
ClientsQuiescentDuringCommand ==
    (\E i \in 1..Len(hci_queue) : hci_queue[i].id # StaticCmdId)
        => \A c \in Registered : registered_clients[c] = "PAUSED"

=============================================================================
