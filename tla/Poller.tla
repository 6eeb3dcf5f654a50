------------------------------- MODULE Poller -------------------------------
(***************************************************************************)
(* The Channels of one loop and the EpollPoller that registers them        *)
(* (src/src/Channel.h, src/src/EpollPoller.cc), on the loop's thread: the  *)
(* interest each Channel asks for, status_, the map channels_, what the    *)
(* kernel was told by epoll_ctl, and the channels reported by epoll_wait   *)
(* while their handlers change interests and remove channels.              *)
(*                                                                         *)
(* There is one Channel per descriptor.  What is ready when epoll_wait     *)
(* returns is up to the outside world; edge-triggering is the subject of   *)
(* TcpConnection.tla and TcpServer.tla.                                    *)
(***************************************************************************)
EXTENDS Naturals, FiniteSets

CONSTANTS
    Channels,         \* the Channels of the loop
    EventVecSize      \* eventVec_.size(), which nothing changes

ASSUME EventVecSizeAssumption == EventVecSize \in Nat \ {0}

VARIABLES
    events,           \* events_ of each Channel
    status,           \* status_ of each Channel
    addToLoop,        \* addToLoop_ of each Channel
    channels,         \* channels_: the Channels in the poller's map
    interest,         \* the kernel's interest list
    handling,         \* eventHandling_ of the EventLoop
    activeChannels,   \* the whole batch that epoll_wait reported
    todo,             \* those of activeChannels that are still to be dispatched
    current,          \* currentActiveChannel, as a set of at most one
    aborted           \* the assertion that ended the process, if any:
                      \* "misuse" (the caller's duty), "records" (the poller's
                      \* own) or "full" (room in eventVec_)

registration == <<events, status, addToLoop, channels, interest>>
dispatch == <<handling, activeChannels, todo, current>>
pollerVars == <<registration, dispatch, aborted>>

CReadEvent  == {"IN"}         \* with EPOLLPRI, EPOLLHUP and EPOLLET
CWriteEvent == {"OUT"}
CNoneEvent  == {}
Masks == SUBSET (CReadEvent \cup CWriteEvent)

PollerTypeOK ==
    /\ events \in [Channels -> Masks]
    /\ status \in [Channels -> {"New", "Added", "Deleted"}]
    /\ addToLoop \in [Channels -> BOOLEAN]
    /\ channels \in SUBSET Channels
    /\ interest \in [Channels -> [on : BOOLEAN, mask : Masks]]
    /\ handling \in BOOLEAN
    /\ activeChannels \in SUBSET Channels
    /\ todo \in SUBSET activeChannels
    /\ current \in SUBSET activeChannels
    /\ aborted \in {"no", "misuse", "records", "full"}

NotRegistered == [on |-> FALSE, mask |-> {}]
Registered(m) == [on |-> TRUE, mask |-> m]

PollerInit ==
    /\ events = [c \in Channels |-> CNoneEvent]
    /\ status = [c \in Channels |-> "New"]
    /\ addToLoop = [c \in Channels |-> FALSE]
    /\ channels = {}
    /\ interest = [c \in Channels |-> NotRegistered]
    /\ handling = FALSE
    /\ activeChannels = {}
    /\ todo = {}
    /\ current = {}
    /\ aborted = "no"

(* One of the poller's own assertions: where it fails, the process aborts.  *)
Check(ok) == aborted' = IF ok THEN "no" ELSE "records"

------------------------------------------------------------------------------
(* epoll_ctl.  A call that does not fit the interest list fails and changes *)
(* nothing; update() only prints that.                                      *)

ctlAdd(c, m) == interest' = [interest EXCEPT ![c] = IF @.on THEN @ ELSE Registered(m)]
ctlMod(c, m) == interest' = [interest EXCEPT ![c] = IF @.on THEN Registered(m) ELSE @]
ctlDel(c)    == interest' = [interest EXCEPT ![c] = NotRegistered]

------------------------------------------------------------------------------
(* Channel::update with events_ = m, through EventLoop to updateChannel     *)

AddChannel(c, m) ==
    /\ status[c] \in {"New", "Deleted"}
    /\ status' = [status EXCEPT ![c] = "Added"]
    /\ channels' = channels \cup {c}
    /\ ctlAdd(c, m)
    /\ Check(status[c] = "New" <=> c \notin channels)

ModifyChannel(c, m) ==
    /\ status[c] = "Added"
    /\ m # CNoneEvent
    /\ ctlMod(c, m)
    /\ Check(c \in channels)
    /\ UNCHANGED <<status, channels>>

DisableChannel(c, m) ==
    /\ status[c] = "Added"
    /\ m = CNoneEvent
    /\ status' = [status EXCEPT ![c] = "Deleted"]
    /\ ctlDel(c)
    /\ Check(c \in channels)
    /\ UNCHANGED channels

(* A handler is running, or the loop is not dispatching at all. *)
CallAllowed == current # {} \/ ~handling

update(c, m) ==
    /\ CallAllowed
    /\ events' = [events EXCEPT ![c] = m]
    /\ addToLoop' = [addToLoop EXCEPT ![c] = TRUE]
    /\ AddChannel(c, m) \/ ModifyChannel(c, m) \/ DisableChannel(c, m)
    /\ UNCHANGED dispatch

enableRead(c)   == update(c, events[c] \cup CReadEvent)
disableRead(c)  == update(c, events[c] \ CReadEvent)
enableWrite(c)  == update(c, events[c] \cup CWriteEvent)
disableWrite(c) == update(c, events[c] \cap CWriteEvent)
disableAll(c)   == update(c, CNoneEvent)

(* Channel::remove, EventLoop::removeChannel and EpollPoller::removeChannel. *)
(* The caller owes them a Channel that was added and is disabled, and during *)
(* dispatch the current one or one that is not in the batch at all; they     *)
(* assert it, and a caller that breaks it ends the process.                  *)
Misused(c) ==
    \/ events[c] # CNoneEvent
    \/ status[c] = "New" /\ c \notin channels
    \/ handling /\ c \in activeChannels \ current

RemoveMisused(c) ==
    /\ Misused(c)
    /\ aborted' = "misuse"
    /\ UNCHANGED <<registration, dispatch>>

(* Mutant: the Channel stays in the map. *)
RemoveChannel_KeepsMap(c) ==
    /\ ~Misused(c)
    /\ addToLoop' = [addToLoop EXCEPT ![c] = FALSE]
    /\ status' = [status EXCEPT ![c] = "New"]
    /\ IF status[c] = "Added" THEN ctlDel(c) ELSE UNCHANGED interest
    /\ Check(c \in channels /\ status[c] # "New")
    /\ UNCHANGED <<events, channels, dispatch>>

(* Mutant: the status is not reset. *)
RemoveChannel_KeepsStatus(c) ==
    /\ ~Misused(c)
    /\ addToLoop' = [addToLoop EXCEPT ![c] = FALSE]
    /\ channels' = channels \ {c}
    /\ IF status[c] = "Added" THEN ctlDel(c) ELSE UNCHANGED interest
    /\ Check(c \in channels /\ status[c] # "New")
    /\ UNCHANGED <<events, status, dispatch>>

RemoveChannel(c) ==
    /\ ~Misused(c)
    /\ addToLoop' = [addToLoop EXCEPT ![c] = FALSE]
    /\ channels' = channels \ {c}
    /\ status' = [status EXCEPT ![c] = "New"]
    /\ IF status[c] = "Added" THEN ctlDel(c) ELSE UNCHANGED interest
    /\ Check(c \in channels /\ status[c] # "New")
    /\ UNCHANGED <<events, dispatch>>

remove(c) == CallAllowed /\ (RemoveMisused(c) \/ RemoveChannel(c))

------------------------------------------------------------------------------
(* poll: the kernel reports some of the registered descriptors, no more     *)
(* than eventVec_ holds.  fillActiveChannel asserts that they are fewer, so  *)
(* that the reserve() for a full vector is never reached, and that each is   *)
(* in channels_.                                                             *)
Report(reported) ==
    /\ ~handling
    /\ \A c \in reported : interest[c].on

PollFull(reported) ==
    /\ Report(reported)
    /\ Cardinality(reported) = EventVecSize
    /\ aborted' = "full"
    /\ UNCHANGED <<registration, dispatch>>

Poll(reported) ==
    /\ Report(reported)
    /\ Cardinality(reported) < EventVecSize
    /\ Check(reported \subseteq channels)
    /\ handling' = TRUE
    /\ activeChannels' = reported
    /\ todo' = reported
    /\ UNCHANGED <<registration, current>>

(* EventLoop::loop hands the next channel its events, ...                   *)
HandleEvent(c) ==
    /\ handling
    /\ current = {}
    /\ c \in todo
    /\ current' = {c}
    /\ todo' = todo \ {c}
    /\ UNCHANGED <<registration, handling, activeChannels, aborted>>

(* ... and goes on when the handler returns, to the end of the batch.       *)
HandlerReturns ==
    /\ current # {}
    /\ current' = {}
    /\ UNCHANGED <<registration, handling, activeChannels, todo, aborted>>

HandlingDone ==
    /\ handling
    /\ current = {} /\ todo = {}
    /\ handling' = FALSE
    /\ UNCHANGED <<registration, activeChannels, todo, current, aborted>>

------------------------------------------------------------------------------
ChannelCall(c) ==
    \/ enableRead(c)
    \/ disableRead(c)
    \/ enableWrite(c)
    \/ disableWrite(c)
    \/ disableAll(c)
    \/ remove(c)

PollerNext ==
    /\ aborted = "no"
    /\ \/ \E c \in Channels : ChannelCall(c) \/ HandleEvent(c)
       \/ \E reported \in (SUBSET Channels) \ {{}} : Poll(reported) \/ PollFull(reported)
       \/ HandlerReturns
       \/ HandlingDone

PollerSpec == PollerInit /\ [][PollerNext]_pollerVars

------------------------------------------------------------------------------
(* Properties *)

(* The kernel watches exactly what each Channel asks for: no call is refused *)
(* (update() would only print it), none is forgotten, and a removed Channel  *)
(* is not watched (EpollPoller.cc:55-98).                                    *)
KernelMatches ==
    \A c \in Channels :
        interest[c] = IF status[c] = "Added" THEN Registered(events[c]) ELSE NotRegistered

(* channels_, status_ and addToLoop_ tell the same story, across Channels    *)
(* that are disabled, enabled again, removed and added anew.                 *)
MapMatches ==
    \A c \in Channels :
        /\ c \in channels <=> status[c] # "New"
        /\ addToLoop[c] <=> status[c] # "New"
        /\ status[c] = "New" => events[c] = CNoneEvent

RecordsAgree == KernelMatches /\ MapMatches

(* The poller never falls over its own records, whatever order of enabling,  *)
(* disabling, removing and reporting its callers choose: the assertions of   *)
(* updateChannel, removeChannel and fillActiveChannel about channels_ and    *)
(* status_ hold (EpollPoller.cc:46-47, :60, :63-64, :69-71, :88-90).         *)
OwnAssertsHold == aborted # "records"
==============================================================================
