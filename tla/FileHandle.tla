----------------------------- MODULE FileHandle -----------------------------
(***************************************************************************)
(* The RAII class FileHandle of include/filesystem.h: handles that are     *)
(* constructed, moved from, moved onto and destroyed, in any order, over   *)
(* the descriptors the kernel has open.                                    *)
(*                                                                         *)
(* close, read and write are declared and not defined in the repository.   *)
(* They are modelled by what the class needs of them: close gives the      *)
(* descriptor back and clears is_open_, a transfer advances position_.     *)
(* position_ and path_ follow the descriptor when a handle is moved, so a  *)
(* ghost keeps how far each descriptor has really been read.               *)
(***************************************************************************)
EXTENDS Naturals

CONSTANTS Handles,    \* places in memory where a handle may live
          Fds,        \* descriptors the kernel can open
          INVALID_FD,
          MaxPos      \* bound on the transfers of one descriptor

HandleAssumption == INVALID_FD \notin Fds /\ MaxPos \in Nat

VARIABLES
    alive,       \* handles whose lifetime has begun and not ended
    fd_,
    position_,
    is_open_,
    opened,      \* descriptors the kernel holds open
    transferred  \* bytes transferred through each open descriptor

vars == <<alive, fd_, position_, is_open_, opened, transferred>>

Init ==
    /\ alive = {}
    /\ fd_ = [h \in Handles |-> INVALID_FD]
    /\ position_ = [h \in Handles |-> 0]
    /\ is_open_ = [h \in Handles |-> FALSE]
    /\ opened = {}
    /\ transferred = [f \in Fds |-> 0]

\* A new descriptor: open hands it to a handle in one step.
Construct(h, f) ==
    /\ h \notin alive /\ f \in Fds \ opened
    /\ alive' = alive \cup {h}
    /\ fd_' = [fd_ EXCEPT ![h] = f]
    /\ position_' = [position_ EXCEPT ![h] = 0]
    /\ is_open_' = [is_open_ EXCEPT ![h] = TRUE]
    /\ opened' = opened \cup {f}
    /\ transferred' = [transferred EXCEPT ![f] = 0]

\* The descriptor of a handle that is still open goes back to the kernel.
Released(h) == IF is_open_[h] THEN opened \ {fd_[h]} ELSE opened

Close(h) ==
    /\ h \in alive /\ is_open_[h]
    /\ is_open_' = [is_open_ EXCEPT ![h] = FALSE]
    /\ opened' = Released(h)
    /\ UNCHANGED <<alive, fd_, position_, transferred>>

Destroy(h) ==
    /\ h \in alive
    /\ alive' = alive \ {h}
    /\ is_open_' = [is_open_ EXCEPT ![h] = FALSE]
    /\ opened' = Released(h)
    /\ UNCHANGED <<fd_, position_, transferred>>

-----------------------------------------------------------------------------
\* Mutant: the handle moved from keeps the descriptor.
TransferredCopies(h, other) ==
    /\ fd_' = [fd_ EXCEPT ![h] = fd_[other]]
    /\ position_' = [position_ EXCEPT ![h] = position_[other]]
    /\ is_open_' = [is_open_ EXCEPT ![h] = is_open_[other]]

\* What both moves do: h takes over, other is left without a descriptor.
Transferred(h, other) ==
    /\ fd_' = [fd_ EXCEPT ![h] = fd_[other], ![other] = INVALID_FD]
    /\ position_' = [position_ EXCEPT ![h] = position_[other]]
    /\ is_open_' = [is_open_ EXCEPT ![h] = is_open_[other], ![other] = FALSE]

\* FileHandle(FileHandle&& other)
MoveConstruct(h, other) ==
    /\ h \notin alive /\ other \in alive
    /\ alive' = alive \cup {h}
    /\ Transferred(h, other)
    /\ UNCHANGED <<opened, transferred>>

\* operator=(FileHandle&& other), this = &other included: nothing happens then.
MoveAssign(h, other) ==
    /\ h \in alive /\ other \in alive
    /\ IF h = other
         THEN UNCHANGED vars
         ELSE /\ opened' = Released(h)
              /\ Transferred(h, other)
              /\ UNCHANGED <<alive, transferred>>

\* read or write of one byte.
Transfer(h) ==
    /\ h \in alive /\ is_open_[h] /\ position_[h] < MaxPos
    /\ position_' = [position_ EXCEPT ![h] = @ + 1]
    /\ transferred' = [transferred EXCEPT ![fd_[h]] = @ + 1]
    /\ UNCHANGED <<alive, fd_, is_open_, opened>>

Next ==
    \E h \in Handles :
        \/ \E f \in Fds : Construct(h, f)
        \/ \E other \in Handles : MoveConstruct(h, other) \/ MoveAssign(h, other)
        \/ Close(h) \/ Transfer(h) \/ Destroy(h)

Spec == Init /\ [][Next]_vars

-----------------------------------------------------------------------------
TypeOK ==
    /\ alive \in SUBSET Handles
    /\ fd_ \in [Handles -> Fds \cup {INVALID_FD}]
    /\ position_ \in [Handles -> 0 .. MaxPos]
    /\ is_open_ \in [Handles -> BOOLEAN]
    /\ opened \in SUBSET Fds
    /\ transferred \in [Fds -> 0 .. MaxPos]

Owns(h, f) == h \in alive /\ is_open_[h] /\ fd_[h] = f

-----------------------------------------------------------------------------
\* Handles as holders of the descriptors the kernel has open.
Owning == INSTANCE Ownership WITH
    Resources <- Fds,
    Holders   <- Handles,
    free      <- Fds \ opened,
    held      <- [h \in Handles |-> {f \in Fds : Owns(h, f)}]

PositionKept == \A h \in alive : is_open_[h] => position_[h] = transferred[fd_[h]]

(***************************************************************************)
(* FileHandle implements Ownership: a construction takes a free            *)
(* descriptor, close and the destructor drop it, and a move hands it over  *)
(* and drops the one it overwrites, so none leaks and none is closed       *)
(* twice; and the owner always knows how far its descriptor has been read. *)
(***************************************************************************)
FilesOwned == Owning!Spec /\ []PositionKept
=============================================================================
