------------------------------- MODULE Session -------------------------------
(***************************************************************************)
(* One direction of a dgproto-go session: the send half of one peer's      *)
(* Session (session_send.go) and the receive half of the other's           *)
(* (session_receive.go), joined by whatever the callers do with the frames.*)
(*                                                                         *)
(* Every frame Send returns is in `frames' for ever, and the receiver may  *)
(* be handed any of them at any time, any number of times: lost, delayed,  *)
(* reordered and duplicated frames are all included.                       *)
(*                                                                         *)
(* A traffic key is the number of ratchet steps that led to it, so that    *)
(* deriveNextTrafficKey is the successor, and a frame decrypts under a key *)
(* exactly when it was encrypted under it.  The epoch is not in the frame. *)
(* A clock is read only to compare elapsed time, so each peer has its own  *)
(* elapsed time instead: sendAge is now - epochStarted, graceLeft is       *)
(* graceUntil - now.  Both stop at the value past which nothing changes.   *)
(***************************************************************************)
EXTENDS ReplaySet, FiniteSets

CONSTANTS
  Payloads,        \* encoded payloads the application sends
  MaxSequence,     \* math.MaxUint64, the last sequence number
  MaxEpoch,        \* math.MaxUint32, the last epoch
  RekeyFrameLimit, \* Session.rekeyFrameLimit, 0 for none
  RekeyInterval,   \* Session.rekeyInterval, 0 for none
  GraceFrames,     \* Session.graceFrames
  GracePeriod      \* Session.gracePeriod

ASSUME SessionAssumption ==
  /\ MaxSequence \in Nat \ {0}
  /\ MaxEpoch \in Nat \ {0}
  /\ RekeyFrameLimit \in Nat
  /\ RekeyInterval \in Nat
  /\ GraceFrames \in Nat
  /\ GracePeriod \in Nat

VARIABLES
  sendKey, sendEpoch, nextSequence, sentInEpoch, sendAge, pendingRekey,
  sendClosed,
  receiveKey, receiveEpoch, replay, previousReceive, previousReplay,
  graceRemaining, graceLeft, receiveClosed,
  frames,          \* every frame the sender has encrypted
  accepted         \* history: the frames ReceivePayload has accepted

sender == <<sendKey, sendEpoch, nextSequence, sentInEpoch, sendAge,
            pendingRekey, sendClosed>>
receiver == <<receiveKey, receiveEpoch, replay, previousReceive,
              previousReplay, graceRemaining, graceLeft, receiveClosed,
              accepted>>
sessionVars == <<sender, receiver, frames>>

deriveNextTrafficKey(key) == key + 1

(* RekeyState.ComputeKeyConfirm: equal only for the same key and epoch.    *)
ComputeKeyConfirm(key, nextEpoch) == <<key, nextEpoch>>

RekeyInit(key, nextEpoch) ==
  [epoch |-> nextEpoch, confirm |-> ComputeKeyConfirm(key, nextEpoch)]

Frame(key, sequence, type, payload) ==
  [key |-> key, sequence |-> sequence, type |-> type, payload |-> payload]

NoKey == 0 \* a nil codec

NoRekey == \* a nil pendingRekey
  [epoch |-> 0, key |-> NoKey,
   frame |-> Frame(NoKey, 0, "RekeyInit", RekeyInit(NoKey, 0))]

RekeyPending == pendingRekey.epoch # 0

SessionInit ==
  /\ sendKey = 1
  /\ sendEpoch = 1
  /\ nextSequence = 1
  /\ sentInEpoch = 0
  /\ sendAge = 0
  /\ pendingRekey = NoRekey
  /\ sendClosed = FALSE
  /\ receiveKey = 1
  /\ receiveEpoch = 1
  /\ replay = EmptyWindow
  /\ previousReceive = NoKey
  /\ previousReplay = EmptyWindow
  /\ graceRemaining = 0
  /\ graceLeft = 0
  /\ receiveClosed = FALSE
  /\ frames = {}
  /\ accepted = {}
-----------------------------------------------------------------------------
(* The send half.                                                          *)

(* Mutant: the limit is compared one frame late.                           *)
rekeyDueLate ==
  \/ RekeyFrameLimit # 0 /\ sentInEpoch > RekeyFrameLimit
  \/ RekeyInterval > 0 /\ sendAge >= RekeyInterval

rekeyDue ==
  \/ RekeyFrameLimit # 0 /\ sentInEpoch >= RekeyFrameLimit
  \/ RekeyInterval > 0 /\ sendAge >= RekeyInterval

(* encryptLocked: the frame takes nextSequence, which becomes 0 for ever   *)
(* after the last one.                                                     *)
encrypt(frame) ==
  /\ nextSequence # 0
  /\ frames' = frames \cup {frame}
  /\ nextSequence' = IF nextSequence = MaxSequence THEN 0 ELSE nextSequence + 1
  /\ sentInEpoch' = sentInEpoch + 1

(* Send or SendPayload of an application message between rekeys.           *)
Send(payload) ==
  /\ ~sendClosed
  /\ ~RekeyPending
  /\ ~rekeyDue
  /\ encrypt(Frame(sendKey, nextSequence, "Data", payload))
  /\ UNCHANGED <<sendKey, sendEpoch, sendAge, pendingRekey, sendClosed>>
  /\ UNCHANGED receiver

(* Mutant: a rekey is started although one is pending.                     *)
StartRekeyAgain ==
  LET init == Frame(sendKey, nextSequence, "RekeyInit",
                    RekeyInit(sendKey, sendEpoch + 1))
  IN  /\ ~sendClosed /\ rekeyDue /\ sendEpoch # MaxEpoch
      /\ encrypt(init)
      /\ pendingRekey' = [epoch |-> sendEpoch + 1,
                          key   |-> deriveNextTrafficKey(sendKey),
                          frame |-> init]
      /\ UNCHANGED <<sendKey, sendEpoch, sendAge, sendClosed>>
      /\ UNCHANGED receiver

(* Send at a rekey boundary: startRekeyLocked returns a RekeyInit under the*)
(* old key, and the new key waits in pendingRekey.                         *)
StartRekey ==
  LET init == Frame(sendKey, nextSequence, "RekeyInit",
                    RekeyInit(sendKey, sendEpoch + 1))
  IN  /\ ~sendClosed
      /\ ~RekeyPending
      /\ rekeyDue
      /\ sendEpoch # MaxEpoch
      /\ encrypt(init)
      /\ pendingRekey' = [epoch |-> sendEpoch + 1,
                          key   |-> deriveNextTrafficKey(sendKey),
                          frame |-> init]
      /\ UNCHANGED <<sendKey, sendEpoch, sendAge, sendClosed>>
      /\ UNCHANGED receiver

(* Mutant: the sequence restarts but the key stays.                        *)
MarkRekeySentOldKey(frame) ==
  /\ ~sendClosed /\ RekeyPending /\ frame = pendingRekey.frame
  /\ sendEpoch' = pendingRekey.epoch
  /\ nextSequence' = 1 /\ sentInEpoch' = 0 /\ sendAge' = 0
  /\ pendingRekey' = NoRekey
  /\ UNCHANGED <<sendKey, sendClosed, frames>>
  /\ UNCHANGED receiver

(* The caller reports that it has transmitted a frame.                     *)
MarkRekeySent(frame) ==
  /\ ~sendClosed
  /\ RekeyPending
  /\ frame = pendingRekey.frame
  /\ sendKey' = pendingRekey.key
  /\ sendEpoch' = pendingRekey.epoch
  /\ nextSequence' = 1
  /\ sentInEpoch' = 0
  /\ sendAge' = 0
  /\ pendingRekey' = NoRekey
  /\ UNCHANGED <<sendClosed, frames>>
  /\ UNCHANGED receiver

CloseSender ==
  /\ ~sendClosed
  /\ sendClosed' = TRUE
  /\ UNCHANGED <<sendKey, sendEpoch, nextSequence, sentInEpoch, sendAge,
                 pendingRekey, frames>>
  /\ UNCHANGED receiver

TickSender ==
  /\ sendAge < RekeyInterval
  /\ sendAge' = sendAge + 1
  /\ UNCHANGED <<sendKey, sendEpoch, nextSequence, sentInEpoch, pendingRekey,
                 sendClosed, frames>>
  /\ UNCHANGED receiver
-----------------------------------------------------------------------------
(* The receive half.                                                       *)

previousAvailable ==
  /\ previousReceive # NoKey
  /\ graceRemaining > 0
  /\ GracePeriod > 0
  /\ graceLeft > 0

(* prepareRekeyLocked: the error, "nil" when the transition may be made.   *)
prepareRekey(init) ==
  CASE receiveEpoch = MaxEpoch -> "ErrEpochExhausted"
    [] receiveEpoch # MaxEpoch /\ init.epoch # receiveEpoch + 1 ->
         "ErrInvalidEpoch"
    [] receiveEpoch # MaxEpoch /\ init.epoch = receiveEpoch + 1 ->
         IF init.confirm = ComputeKeyConfirm(receiveKey, init.epoch)
         THEN "nil" ELSE "ErrKeyConfirmFailed"

(* What ReceivePayload makes of a frame of this session: decryptEpochLocked*)
(* tries the current key, then the previous one during its grace; "nil" is *)
(* acceptance.                                                             *)
Verdict(frame) ==
  IF frame.key = receiveKey
  THEN IF ~Acceptable(replay, frame.sequence) THEN "ErrReplay"
       ELSE IF frame.type = "RekeyInit" THEN prepareRekey(frame.payload)
       ELSE "nil"
  ELSE IF previousAvailable /\ frame.key = previousReceive
  THEN IF frame.type = "RekeyInit" THEN "ErrInvalidEpoch"
       ELSE IF ~Acceptable(previousReplay, frame.sequence) THEN "ErrReplay"
       ELSE "nil"
  ELSE "ErrAuthentication"

(* Mutant: the deadline is renewed instead of enforced.                    *)
GraceRenewed(key, window, remaining, left) ==
  LET expired == remaining = 0
  IN  /\ previousReceive' = IF expired THEN NoKey ELSE key
      /\ previousReplay' = IF expired THEN EmptyWindow ELSE window
      /\ graceRemaining' = remaining
      /\ graceLeft' = IF expired THEN 0 ELSE GracePeriod

(* The retained key, its window and its budgets after expireGraceLocked.   *)
Grace(key, window, remaining, left) ==
  LET expired == remaining = 0 \/ GracePeriod = 0 \/ left = 0
  IN  /\ previousReceive' = IF expired THEN NoKey ELSE key
      /\ previousReplay' = IF expired THEN EmptyWindow ELSE window
      /\ graceRemaining' = IF expired THEN 0 ELSE remaining
      /\ graceLeft' = IF expired THEN 0 ELSE left

(* Mutants of the transition: an older key is kept; the current window is  *)
(* not emptied.                                                            *)
RekeyTransition(frame, key, retained, fresh) ==
  /\ ~receiveClosed /\ Verdict(frame) = "nil" /\ frame.type = "RekeyInit"
  /\ Grace(key, retained, GraceFrames, GracePeriod)
  /\ receiveKey' = deriveNextTrafficKey(receiveKey)
  /\ receiveEpoch' = frame.payload.epoch
  /\ replay' = fresh
  /\ accepted' = accepted \cup {frame}
  /\ UNCHANGED <<receiveClosed, frames>>
  /\ UNCHANGED sender

ReceiveRekeyKeepsOldest(frame) ==
  RekeyTransition(frame, IF previousReceive = NoKey THEN receiveKey ELSE previousReceive,
                  Committed(replay, frame.sequence), EmptyWindow)

ReceiveRekeyOneWindow(frame) ==
  RekeyTransition(frame, receiveKey, Committed(replay, frame.sequence),
                  Committed(replay, frame.sequence))

(* A RekeyInit under the current key: key, epoch, replay and grace state   *)
(* change together.                                                        *)
ReceiveRekey(frame) ==
  /\ ~receiveClosed
  /\ Verdict(frame) = "nil"
  /\ frame.type = "RekeyInit"
  /\ Grace(receiveKey, Committed(replay, frame.sequence), GraceFrames, GracePeriod)
  /\ receiveKey' = deriveNextTrafficKey(receiveKey)
  /\ receiveEpoch' = frame.payload.epoch
  /\ replay' = EmptyWindow
  /\ accepted' = accepted \cup {frame}
  /\ UNCHANGED <<receiveClosed, frames>>
  /\ UNCHANGED sender

(* Mutant: a frame of the new epoch costs no grace.                        *)
ReceiveCurrentFree(frame) ==
  /\ ~receiveClosed /\ Verdict(frame) = "nil"
  /\ frame.type # "RekeyInit" /\ frame.key = receiveKey
  /\ replay' = Committed(replay, frame.sequence)
  /\ accepted' = accepted \cup {frame}
  /\ UNCHANGED <<receiveKey, receiveEpoch, previousReceive, previousReplay,
                 graceRemaining, graceLeft, receiveClosed, frames>>
  /\ UNCHANGED sender

(* Any other frame under the current key; it uses up one frame of grace.   *)
ReceiveCurrent(frame) ==
  /\ ~receiveClosed
  /\ Verdict(frame) = "nil"
  /\ frame.type # "RekeyInit"
  /\ frame.key = receiveKey
  /\ replay' = Committed(replay, frame.sequence)
  /\ IF previousReceive # NoKey
     THEN Grace(previousReceive, previousReplay,
                IF graceRemaining > 0 THEN graceRemaining - 1 ELSE 0, graceLeft)
     ELSE UNCHANGED <<previousReceive, previousReplay, graceRemaining, graceLeft>>
  /\ accepted' = accepted \cup {frame}
  /\ UNCHANGED <<receiveKey, receiveEpoch, receiveClosed, frames>>
  /\ UNCHANGED sender

(* Mutant: a frame of the previous epoch is not committed.                 *)
ReceivePreviousUncommitted(frame) ==
  /\ ~receiveClosed /\ Verdict(frame) = "nil" /\ frame.key # receiveKey
  /\ accepted' = accepted \cup {frame}
  /\ UNCHANGED <<receiveKey, receiveEpoch, replay, previousReceive, previousReplay,
                 graceRemaining, graceLeft, receiveClosed, frames>>
  /\ UNCHANGED sender

(* A frame under the previous key, in its grace.                           *)
ReceivePrevious(frame) ==
  /\ ~receiveClosed
  /\ Verdict(frame) = "nil"
  /\ frame.key # receiveKey
  /\ previousReplay' = Committed(previousReplay, frame.sequence)
  /\ accepted' = accepted \cup {frame}
  /\ UNCHANGED <<receiveKey, receiveEpoch, replay, previousReceive,
                 graceRemaining, graceLeft, receiveClosed, frames>>
  /\ UNCHANGED sender

(* A frame that is refused changes nothing.                                *)
ReceiveRefused(frame) ==
  /\ receiveClosed \/ Verdict(frame) # "nil"
  /\ UNCHANGED sessionVars

CloseReceiver ==
  /\ ~receiveClosed
  /\ receiveClosed' = TRUE
  /\ UNCHANGED <<receiveKey, receiveEpoch, replay, previousReceive,
                 previousReplay, graceRemaining, graceLeft, accepted, frames>>
  /\ UNCHANGED sender

TickReceiver ==
  /\ graceLeft > 0
  /\ graceLeft' = graceLeft - 1
  /\ UNCHANGED <<receiveKey, receiveEpoch, replay, previousReceive,
                 previousReplay, graceRemaining, receiveClosed, accepted, frames>>
  /\ UNCHANGED sender
-----------------------------------------------------------------------------
Receive(frame) ==
  \/ ReceiveRekey(frame)
  \/ ReceiveCurrent(frame)
  \/ ReceivePrevious(frame)
  \/ ReceiveRefused(frame)

SessionNext ==
  \/ \E payload \in Payloads : Send(payload)
  \/ StartRekey
  \/ \E frame \in frames : MarkRekeySent(frame)
  \/ CloseSender
  \/ TickSender
  \/ \E frame \in frames : Receive(frame)
  \/ CloseReceiver
  \/ TickReceiver

SessionSpec == SessionInit /\ [][SessionNext]_sessionVars
-----------------------------------------------------------------------------
Keys == Nat \ {NoKey}

Epochs == 1 .. MaxEpoch

RekeyType == [epoch : Epochs, confirm : Keys \X Epochs]

FrameType ==
  [key : Keys, sequence : 1 .. MaxSequence, type : {"Data"}, payload : Payloads]
    \cup
  [key : Keys, sequence : 1 .. MaxSequence, type : {"RekeyInit"}, payload : RekeyType]

WindowType == [highest : 0 .. MaxSequence, seen : SUBSET (1 .. MaxSequence)]

(* Keys, epochs, sequences, windows and budgets keep to their widths, and  *)
(* only frames that were sent are accepted (session.go Session).           *)
TypeOK ==
  /\ sendKey \in Keys
  /\ sendEpoch \in Epochs
  /\ nextSequence \in 0 .. MaxSequence
  /\ sentInEpoch \in Nat
  /\ sendAge \in 0 .. RekeyInterval
  /\ pendingRekey \in [epoch : Epochs, key : Keys, frame : FrameType] \cup {NoRekey}
  /\ sendClosed \in BOOLEAN
  /\ receiveKey \in Keys
  /\ receiveEpoch \in Epochs
  /\ replay \in WindowType
  /\ previousReceive \in Keys \cup {NoKey}
  /\ previousReplay \in WindowType
  /\ graceRemaining \in 0 .. GraceFrames
  /\ graceLeft \in 0 .. GracePeriod
  /\ receiveClosed \in BOOLEAN
  /\ frames \subseteq FrameType
  /\ accepted \subseteq frames

SameNonce(f, g) == f.key = g.key /\ f.sequence = g.sequence

(* No two frames are encrypted with the same key and sequence, and the     *)
(* nonce that the next frame will take has never been used, through every  *)
(* rekey, failed send and exhausted counter (session_send.go encryptLocked,*)
(* startRekeyLocked, MarkRekeySent).                                       *)
NonceNeverReused ==
  /\ \A f, g \in frames : SameNonce(f, g) => f = g
  /\ nextSequence # 0 =>
       \A f \in frames : ~(f.key = sendKey /\ f.sequence = nextSequence)
  /\ RekeyPending => \A f \in frames : f.key # pendingRekey.key

(* An epoch that has been left has a RekeyInit, and nothing of the epoch is*)
(* numbered above it: "no new-epoch application frame can overtake         *)
(* RekeyInit" (session_send.go Send), and no old-epoch frame follows it.   *)
RekeyInitEndsEpoch ==
  /\ \A f \in frames : f.key > 1 =>
       \E init \in frames : init.type = "RekeyInit" /\ init.key = f.key - 1
  /\ \A init, f \in frames :
       init.type = "RekeyInit" /\ f.key = init.key => f.sequence <= init.sequence

(* The receiver is never ahead of the sender, except by the one epoch whose*)
(* RekeyInit is out but not yet marked as sent; on each side the key is    *)
(* the one of its epoch, and the retained key is that of the epoch before. *)
EpochAgreement ==
  /\ sendKey = sendEpoch
  /\ receiveKey = receiveEpoch
  /\ receiveEpoch <= IF RekeyPending THEN pendingRekey.epoch ELSE sendEpoch
  /\ RekeyPending => pendingRekey.epoch = sendEpoch + 1
  /\ previousReceive # NoKey => previousReceive = receiveKey - 1

(* A frame that was accepted is refused ever after, in whatever order the  *)
(* frames, rekeys and grace expiries come: the windows of the two keys are *)
(* swapped and dropped without forgetting a frame that still decrypts      *)
(* (session_receive.go ReceivePayload).                                    *)
AcceptedOnce == \A f \in accepted : Verdict(f) # "nil"

Before(f, g) == f.key < g.key \/ (f.key = g.key /\ f.sequence < g.sequence)

(* Over a transport that keeps the order, as TCP does, no frame is ever    *)
(* refused: whenever exactly the frames before f have been accepted, f is  *)
(* acceptable.  connection_receive.go closes the connection on any error   *)
(* of Receive, so a refusal here would break a healthy connection.         *)
InOrderAccepted ==
  \A f \in frames :
    accepted = {g \in frames : Before(g, f)} => Verdict(f) = "nil"

(* The previous key is retained for GraceFrames frames of the new epoch and*)
(* not one more: the frames accepted under the current key and the frames  *)
(* of grace left always add up.                                            *)
GraceBudget ==
  previousReceive # NoKey =>
    graceRemaining + Cardinality({f \in accepted : f.key = receiveKey}) = GraceFrames

(* A previous key that has become unusable stays unusable until the next   *)
(* rekey: "clearing it eagerly prevents a later frame from reviving an     *)
(* expired epoch" (session_receive.go expireGraceLocked).                  *)
NoRevival ==
  [][~previousAvailable /\ receiveKey' = receiveKey => ~previousAvailable']_sessionVars

(* With a frame limit below the last sequence number, as the default is,   *)
(* the sequence numbers never run out: whenever the counter has reached    *)
(* its end a rekey is pending that will reset it.                          *)
SequenceHeadroom ==
  RekeyFrameLimit \in 1 .. MaxSequence - 1 => nextSequence # 0 \/ RekeyPending
=============================================================================
