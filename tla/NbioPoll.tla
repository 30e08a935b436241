------------------------------ MODULE NbioPoll ------------------------------
(***************************************************************************)
(* The poll plugin (nbio-poll.c), the event loop of every build without    *)
(* epoll: its array of pollfds, shared with the inactive list.  The scan   *)
(* of nbio_pump is reduced to "each active io reads until EAGAIN and goes  *)
(* to sleep"; what is kept in full is the bookkeeping of the slots.        *)
(***************************************************************************)
EXTENDS Naturals, Sequences, FiniteSets

CONSTANT Ios                \* connections waiting to read

VARIABLES
    active,                 \* ios being run
    inactive,               \* the inactive list, in order
    pfd, num_pfd,           \* struct poll_priv: the fd in each slot (NoFd: none yet)
    revents,                \* the slots whose revents is not 0
    poll,                   \* n->ev_priv.poll: the slot of each io, or NoSlot
    readable                \* ios whose socket has something to read

vars == <<active, inactive, pfd, num_pfd, revents, poll, readable>>

(* Bound: slots in use; a run of the loop that needs more is not followed. *)
MaxSlots == 2 * Cardinality(Ios)
Slots == 0 .. (MaxSlots - 1)
NoFd == "none"
NoSlot == MaxSlots
Elems(s) == {s[i] : i \in DOMAIN s}

(* poll_inactive: always a new slot, whatever slot the io had before       *)
PollInactive(n) ==
    /\ num_pfd < MaxSlots
    /\ pfd' = [pfd EXCEPT ![num_pfd] = n]
    /\ poll' = [poll EXCEPT ![n] = num_pfd]
    /\ num_pfd' = num_pfd + 1

(* The handler of n reads until EAGAIN: nbio_inactive.                     *)
Sleep(n) ==
    /\ n \in active
    /\ active' = active \ {n} /\ inactive' = Append(inactive, n)
    /\ readable' = readable \ {n}
    /\ PollInactive(n) /\ UNCHANGED revents

(* The loop of poll_pump over the inactive list, one io after another:     *)
(* st.k is num_pfd as it is counted up again, st.left the list without     *)
(* those that were moved to the active list.  fd and events are moved      *)
(* down, revents is not, and neither is ev_priv.poll.                      *)
Visit(n, st, events) ==
    LET stays == [st EXCEPT !.left = Append(@, n)]
    IN  IF poll[n] = NoSlot THEN stays
        ELSE IF poll[n] \in events
             THEN [st EXCEPT !.woken = @ \cup {n}]
             ELSE [stays EXCEPT !.fds[st.k] = st.fds[poll[n]], !.k = @ + 1]

Scan(events) ==
    LET walk[i \in 0 .. Len(inactive)] ==
            IF i = 0 THEN [fds |-> pfd, k |-> 0, left |-> << >>, woken |-> {}]
                     ELSE Visit(inactive[i], walk[i - 1], events)
    IN  walk[Len(inactive)]

(* poll() returns when a slot below num_pfd is readable, and sets revents  *)
(* in those slots alone: above them it is what an earlier call left.       *)
PollPump ==
    LET fired  == {s \in Slots : s < num_pfd /\ pfd[s] \in readable}
        events == fired \cup {s \in revents : s >= num_pfd}
        end    == Scan(events)
    IN  /\ active = {} /\ inactive # <<>> /\ fired # {}
        /\ num_pfd' = end.k /\ pfd' = end.fds /\ revents' = events
        /\ poll' = [n \in Ios |-> IF n \in end.woken THEN NoSlot ELSE poll[n]]
        /\ active' = end.woken
        /\ inactive' = end.left
        /\ UNCHANGED readable

Arrive(n) ==
    /\ n \notin readable
    /\ readable' = readable \cup {n}
    /\ UNCHANGED <<active, inactive, pfd, num_pfd, revents, poll>>

Init ==
    /\ active = Ios /\ inactive = <<>>
    /\ pfd = [s \in Slots |-> NoFd] /\ num_pfd = 0 /\ revents = {}
    /\ poll = [n \in Ios |-> NoSlot]
    /\ readable = {}

Next == PollPump \/ \E n \in Ios : Sleep(n) \/ Arrive(n)

Spec == Init /\ [][Next]_vars

-----------------------------------------------------------------------------
(* Types of all of the variables.                                          *)
TypeOK ==
    /\ active \subseteq Ios /\ inactive \in Seq(Ios) /\ readable \subseteq Ios
    /\ pfd \in [Slots -> Ios \cup {NoFd}] /\ num_pfd \in 0 .. MaxSlots
    /\ revents \subseteq Slots
    /\ poll \in [Ios -> 0 .. MaxSlots]

(* nbio_add is to "Register an fd with read/write/error callbacks"         *)
(* (nbio.c:13), and nbio_pump to "Pump events" (nbio.c:12): the fd of      *)
(* every sleeping io is among those that poll() is given.                  *)
StaysRegistered ==
    \A n \in Elems(inactive) : \E s \in Slots : s < num_pfd /\ pfd[s] = n
=============================================================================
