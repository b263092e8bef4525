------------------------------ MODULE UefiBoot ------------------------------
(***************************************************************************)
(* boot/uefi_bootloader.c: efi_main and the functions it calls, one step   *)
(* per call into the firmware.  The firmware is external: every call may   *)
(* fail, and every call may change the memory map, which outdates the map  *)
(* key that ExitBootServices asks for.                                     *)
(*                                                                         *)
(* held is the set of resources the loader has obtained and not returned.  *)
(* Graphics modes are abstracted to the score InitializeGraphics gives     *)
(* them (Error: QueryMode failed).                                         *)
(***************************************************************************)
EXTENDS Naturals, FiniteSets

CONSTANTS MaxMode   \* graphics modes are 0 .. MaxMode - 1

ASSUME BootAssumption == MaxMode \in Nat

Mode   == 0 .. MaxMode - 1
NoMode == MaxMode
Error  == 1          \* no score is 1: they are sums of 100 and 50
Scores == {0, 50, 100, 150}

VARIABLES
    pc,            \* the firmware call about to be made
    held,          \* resources obtained and not given back
    graphics_info, \* whether config.graphics_info is set
    score,         \* the score of every mode, when queried
    best_mode,
    key_current,   \* whether config.memory_map_key is the firmware's key
    services,      \* boot services: "available" or "exited"
    failed,        \* ghost: a firmware call has reported an error
    wait_for       \* where WaitForKeyPress returns to

vars == <<pc, held, graphics_info, score, best_mode, key_current, services,
          failed, wait_for>>

Init ==
    /\ pc = "LocateHandleBuffer"
    /\ held = {}
    /\ graphics_info = FALSE
    /\ score = [m \in Mode |-> Error]
    /\ best_mode = NoMode
    /\ key_current = FALSE
    /\ services = "available"
    /\ failed = FALSE
    /\ wait_for = "ExitBootServices"

\* Any call may allocate or free memory inside the firmware.
Disturb == key_current' \in {key_current, FALSE}

Graphics == <<graphics_info, score, best_mode>>

Succeeds(next, got, released) ==
    /\ pc' = next
    /\ held' = (held \cup got) \ released
    /\ UNCHANGED failed

Fails(next, released) ==
    /\ pc' = next
    /\ held' = held \ released
    /\ failed' = TRUE

\* A call that continues at next, or fails and gives back released.
Call(at, next, got, onError, released) ==
    /\ pc = at
    /\ Succeeds(next, got, {}) \/ Fails(onError, released)
    /\ Disturb
    /\ UNCHANGED <<Graphics, services, wait_for>>

-----------------------------------------------------------------------------
\* InitializeGraphics.  No handle at all is reported with the status as it is.
LocateHandleBuffer ==
    /\ pc = "LocateHandleBuffer"
    /\ \/ Succeeds("HandleGop", {"handles"}, {})
       \/ Succeeds("GraphicsOk", {}, {})
       \/ Fails("GraphicsError", {})
    /\ Disturb
    /\ UNCHANGED <<Graphics, services, wait_for>>

HandleGop == Call("HandleGop", "QueryModes", {}, "GraphicsError", {"handles"})

\* Mutant: a later mode of equal score replaces the best one.
BetterOrEqual(s, m, b) ==
    IF s[m] # Error /\ s[m] >= b.score THEN [mode |-> m, score |-> s[m]] ELSE b

\* The loop keeps the first mode whose score beats the best so far, b.
Better(s, m, b) ==
    IF s[m] # Error /\ s[m] > b.score THEN [mode |-> m, score |-> s[m]] ELSE b

NoneYet == [mode |-> NoMode, score |-> 0]

\* The best of the first m modes.
Best(s) ==
    LET best[m \in 0 .. MaxMode] ==
          IF m = 0 THEN NoneYet ELSE Better(s, m - 1, best[m - 1])
    IN  best

BestOf(s) == Best(s)[MaxMode].mode

\* QueryMode allocates the information it returns; nothing frees it.
QueryModes ==
    /\ pc = "QueryModes"
    /\ \E s \in [Mode -> Scores \cup {Error}] :
         /\ score' = s
         /\ best_mode' = BestOf(s)
         /\ Succeeds(IF BestOf(s) = NoMode THEN "StoreGraphics" ELSE "SetMode",
                     IF \E m \in Mode : s[m] # Error THEN {"mode_info"} ELSE {}, {})
    /\ Disturb
    /\ UNCHANGED <<graphics_info, services, wait_for>>

SetMode == Call("SetMode", "StoreGraphics", {}, "GraphicsError", {"handles"})

StoreGraphics ==
    /\ pc = "StoreGraphics"
    /\ graphics_info' = TRUE
    /\ Succeeds("GraphicsOk", {}, {"handles"})
    /\ Disturb
    /\ UNCHANGED <<score, best_mode, services, wait_for>>

\* efi_main reports; on success it reads config.graphics_info.
ReportGraphics ==
    /\ pc \in {"GraphicsOk", "GraphicsError"}
    /\ Succeeds("LoadedImage", {}, {})
    /\ Disturb
    /\ UNCHANGED <<Graphics, services, wait_for>>

LoadedImage == Call("LoadedImage", "FileSystem", {}, "error_exit", {})
FileSystem  == Call("FileSystem", "OpenVolume", {}, "error_exit", {})

-----------------------------------------------------------------------------
\* Mutant: the error path forgets root->Close.
GetInfoLeaks == Call("GetInfo", "AllocatePages", {}, "error_exit", {"file", "info"})

\* LoadKernel: each error path gives back what was obtained so far.
OpenVolume == Call("OpenVolume", "Open", {"root"}, "error_exit", {})
Open       == Call("Open", "AllocateInfo", {"file"}, "error_exit", {"root"})
AllocateInfo == Call("AllocateInfo", "GetInfo", {"info"}, "error_exit", {"root", "file"})
GetInfo == Call("GetInfo", "AllocatePages", {}, "error_exit", {"root", "file", "info"})
AllocatePages ==
    Call("AllocatePages", "Read", {"kernel"}, "error_exit", {"root", "file", "info"})
Read ==
    Call("Read", "CleanUp", {}, "error_exit", {"root", "file", "info", "kernel"})

CleanUp ==
    /\ pc = "CleanUp"
    /\ Succeeds("MapSize", {}, {"root", "file", "info"})
    /\ Disturb
    /\ UNCHANGED <<Graphics, services, wait_for>>

\* SetupMemoryMap.
MapSize     == Call("MapSize", "AllocateMap", {}, "error_exit", {})
AllocateMap == Call("AllocateMap", "GetMemoryMap", {"map"}, "error_exit", {})

GetMemoryMap ==
    /\ pc = "GetMemoryMap"
    /\ \/ Succeeds("CreateEvent", {}, {}) /\ key_current' = TRUE
       \/ Fails("error_exit", {"map"}) /\ UNCHANGED key_current
    /\ UNCHANGED <<Graphics, services, wait_for>>

-----------------------------------------------------------------------------
\* WaitForKeyPress: its errors are swallowed.
CreateEvent == Call("CreateEvent", "SetTimer", {"event"}, wait_for, {})
SetTimer    == Call("SetTimer", "WaitForEvent", {}, wait_for, {"event"})
WaitForEvent == Call("WaitForEvent", "CloseEvent", {}, "CloseEvent", {})

CloseEvent ==
    /\ pc = "CloseEvent"
    /\ Succeeds(wait_for, {}, {"event"})
    /\ Disturb
    /\ UNCHANGED <<Graphics, services, wait_for>>

\* Mutant: the status of ExitBootServices is not looked at.
ExitBootServicesUnchecked ==
    /\ pc = "ExitBootServices"
    /\ Succeeds("kernel", {}, {})
    /\ services' = IF key_current THEN "exited" ELSE services
    /\ UNCHANGED <<Graphics, key_current, wait_for>>

(***************************************************************************)
(* TransferControlToKernel: the firmware refuses a key that is not         *)
(* current, and may fail with a current one as every call may.  The kernel *)
(* does not return: _start of entry64.asm ends in a loop of hlt.           *)
(***************************************************************************)
ExitBootServices ==
    /\ pc = "ExitBootServices"
    /\ \/ /\ key_current
          /\ Succeeds("kernel", {}, {})
          /\ services' = "exited"
       \/ /\ ~key_current
          /\ Succeeds("error_exit", {}, {})
          /\ UNCHANGED services
       \/ Fails("error_exit", {}) /\ UNCHANGED services
    /\ UNCHANGED <<Graphics, key_current, wait_for>>

\* Mutant: error_exit tries again for ever.
ErrorExitLoops ==
    /\ pc = "error_exit"
    /\ wait_for' = "error_exit"
    /\ Succeeds("CreateEvent", {}, {})
    /\ Disturb
    /\ UNCHANGED <<Graphics, services>>

\* error_exit waits once more and returns to the firmware.
ErrorExit ==
    /\ pc = "error_exit"
    /\ wait_for' = "done"
    /\ Succeeds("CreateEvent", {}, {})
    /\ Disturb
    /\ UNCHANGED <<Graphics, services>>

LoadKernel     == OpenVolume \/ Open \/ AllocateInfo \/ GetInfo \/ AllocatePages \/ Read \/ CleanUp
SetupMemoryMap == MapSize \/ AllocateMap \/ GetMemoryMap
WaitForKeyPress == CreateEvent \/ SetTimer \/ WaitForEvent \/ CloseEvent
InitializeGraphics == LocateHandleBuffer \/ HandleGop \/ QueryModes \/ SetMode \/ StoreGraphics

Next == \/ InitializeGraphics \/ ReportGraphics \/ LoadedImage \/ FileSystem
        \/ LoadKernel \/ SetupMemoryMap \/ WaitForKeyPress
        \/ ExitBootServices \/ ErrorExit

\* A firmware call returns: WaitForEvent because its timer fires.
Spec == Init /\ [][Next]_vars /\ WF_vars(Next)

-----------------------------------------------------------------------------
Steps == {"LocateHandleBuffer", "HandleGop", "QueryModes", "SetMode", "StoreGraphics",
          "GraphicsOk", "GraphicsError", "LoadedImage", "FileSystem", "OpenVolume",
          "Open", "AllocateInfo", "GetInfo", "AllocatePages", "Read", "CleanUp",
          "MapSize", "AllocateMap", "GetMemoryMap", "CreateEvent", "SetTimer",
          "WaitForEvent", "CloseEvent", "ExitBootServices", "error_exit", "kernel", "done"}

Resources == {"handles", "mode_info", "root", "file", "info", "kernel", "map", "event"}

TypeOK ==
    /\ pc \in Steps
    /\ held \in SUBSET Resources
    /\ graphics_info \in BOOLEAN
    /\ score \in [Mode -> Scores \cup {Error}]
    /\ best_mode \in Mode \cup {NoMode}
    /\ key_current \in BOOLEAN
    /\ services \in {"available", "exited"}
    /\ failed \in BOOLEAN
    /\ wait_for \in {"ExitBootServices", "done"}

InLoadKernel == pc \in {"Open", "AllocateInfo", "GetInfo", "AllocatePages", "Read", "CleanUp"}

(***************************************************************************)
(* Whatever call fails, LoadKernel closes its files and frees its buffer,  *)
(* InitializeGraphics frees the handles, and every WaitForKeyPress closes  *)
(* its event: outside those functions none of these is held, and the       *)
(* loader never owns a memory map without a kernel to give it to.  Not     *)
(* covered, because the code never gives them back: what QueryMode         *)
(* allocates, and the kernel's pages and the map after error_exit.         *)
(***************************************************************************)
NoLeak ==
    /\ ~InLoadKernel => held \cap {"root", "file", "info"} = {}
    /\ pc \notin {"HandleGop", "QueryModes", "SetMode", "StoreGraphics"} => "handles" \notin held
    /\ pc \notin {"SetTimer", "WaitForEvent", "CloseEvent"} => "event" \notin held
    /\ "map" \in held => "kernel" \in held

(***************************************************************************)
(* The kernel is entered only with boot services exited under a key that   *)
(* was current, its image and the memory map in place, and nothing of the  *)
(* firmware's still in use.                                                *)
(***************************************************************************)
KernelEntry ==
    /\ pc = "kernel" => /\ services = "exited"
                        /\ {"kernel", "map"} \subseteq held
                        /\ held \subseteq {"kernel", "map", "mode_info"}
    /\ services = "exited" => pc = "kernel"

(***************************************************************************)
(* "Find the best graphics mode": the mode set is the first of the modes   *)
(* with the highest score, and none is set when no mode scores.            *)
(***************************************************************************)
BestModeChosen ==
    LET usable == {m \in Mode : score[m] # Error /\ score[m] > 0}
    IN  pc \in {"SetMode", "StoreGraphics"} =>
          IF usable = {} THEN best_mode = NoMode
          ELSE /\ best_mode \in usable
               /\ \A m \in usable : \/ score[m] < score[best_mode]
                                    \/ score[m] = score[best_mode] /\ best_mode <= m

(***************************************************************************)
(* The loader never hangs: it enters the kernel or returns to the firmware.*)
(***************************************************************************)
BootEnds == <>(pc \in {"kernel", "done"})

-----------------------------------------------------------------------------
(***************************************************************************)
(* "Success or error code": when InitializeGraphics reports success, the   *)
(* graphics information that efi_main then reads is there.  Violated when  *)
(* no graphics handle exists: the status of the successful call is         *)
(* returned and config.graphics_info is still NULL.                        *)
(***************************************************************************)
GraphicsInfoSet == pc = "GraphicsOk" => graphics_info

(***************************************************************************)
(* "Press any key to boot or wait 3 seconds": when no firmware call        *)
(* failed, the kernel is booted.  Violated: creating and closing the timer *)
(* event after GetMemoryMap may change the map, ExitBootServices refuses   *)
(* the old key, and it is not asked again with a new one.                  *)
(***************************************************************************)
BootsWhenNothingFails == pc = "error_exit" => failed
=============================================================================
