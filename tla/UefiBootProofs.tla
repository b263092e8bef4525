--------------------------- MODULE UefiBootProofs ---------------------------
(***************************************************************************)
(* Proofs about the UEFI boot loader, for any number of graphics modes and *)
(* any scores: what the loader holds at every call into the firmware, the  *)
(* state in which the kernel is entered, and the mode that the search      *)
(* chooses.                                                                *)
(*                                                                         *)
(* NoLeak says only what is not held outside of the functions.  That every *)
(* error path gives back what it has to needs to know what is held inside  *)
(* them: HeldAt says, for every resource, at which calls it is held.       *)
(***************************************************************************)
EXTENDS UefiBoot, WellFoundedInduction, TLAPS

FilesAt   == {"AllocateInfo", "GetInfo", "AllocatePages", "Read", "CleanUp"}
HandlesAt == {"HandleGop", "QueryModes", "SetMode", "StoreGraphics"}
EventAt   == {"SetTimer", "WaitForEvent", "CloseEvent"}
WaitingAt == EventAt \cup {"CreateEvent"}
MapAt     == WaitingAt \cup {"GetMemoryMap", "ExitBootServices", "kernel",
                             "error_exit", "done"}

HeldAt ==
    /\ "root" \in held <=> pc \in FilesAt \cup {"Open"}
    /\ "file" \in held <=> pc \in FilesAt
    /\ "info" \in held <=> pc \in FilesAt \ {"AllocateInfo"}
    /\ "handles" \in held <=> pc \in HandlesAt
    /\ "event" \in held <=> pc \in EventAt
    /\ "map" \in held => pc \in MapAt
    /\ "map" \in held => "kernel" \in held
    /\ pc \in {"Read", "CleanUp", "MapSize", "AllocateMap"} => "kernel" \in held
    /\ pc \in {"GetMemoryMap", "ExitBootServices", "kernel"} =>
         {"kernel", "map"} \subseteq held
    /\ pc \in WaitingAt /\ wait_for = "ExitBootServices" => {"kernel", "map"} \subseteq held

IndInv ==
    /\ TypeOK
    /\ HeldAt
    /\ services = "exited" <=> pc = "kernel"
    /\ pc \in {"SetMode", "StoreGraphics"} => best_mode = BestOf(score)

-----------------------------------------------------------------------------
(***************************************************************************)
(* Induction over the natural numbers, stated with a set: a set that has 0 *)
(* and the successor of each of its elements has them all.                 *)
(***************************************************************************)
LEMMA NatLeast ==
    ASSUME NEW T, T \subseteq Nat, T # {}
    PROVE  \E n \in T : \A k \in T : n <= k
<1>1. PICK x \in T : \A y \in T : ~(<<y, x>> \in OpToRel(<, Nat))
  BY NatLessThanWellFounded, WFMin
<1>2. \A j, k \in Nat : <<j, k>> \in OpToRel(<, Nat) <=> j < k
  BY DEF OpToRel
<1>3. ASSUME NEW k \in T
      PROVE  x <= k
  <2>1. x \in Nat /\ k \in Nat
    OBVIOUS
  <2>2. ~(k < x)
    BY <1>1, <1>2, <2>1
  <2>3. QED
    BY <2>1, <2>2
<1>4. QED
  BY <1>3

\* The principle itself.
LEMMA SetInduction ==
    ASSUME NEW T, 0 \in T, \A n \in Nat : n \in T => n + 1 \in T
    PROVE  \A n \in Nat : n \in T
<1> DEFINE U == Nat \ T
<1> SUFFICES ASSUME U # {} PROVE FALSE
  OBVIOUS
<1>1. U \subseteq Nat
  OBVIOUS
<1>2. PICK n \in U : \A k \in U : n <= k
  <2> HIDE DEF U
  <2> QED
    BY <1>1, NatLeast
<1>3. n \in Nat /\ n - 1 \in Nat /\ ~(n <= n - 1) /\ n = (n - 1) + 1
  OBVIOUS
<1>4. n - 1 \in T
  BY <1>2, <1>3
<1>5. QED
  BY <1>3, <1>4

-----------------------------------------------------------------------------
(***************************************************************************)
(* The search for a graphics mode.                                         *)
(***************************************************************************)
ScoreTable == [Mode -> Scores \cup {Error}]
Choice     == [mode : Mode \cup {NoMode}, score : Nat]

\* Every step of the search has a choice for its result.
LEMMA BetterType ==
    ASSUME NEW s \in ScoreTable, NEW m \in Mode, NEW b \in Choice
    PROVE  Better(s, m, b) \in Choice
<1>1. s[m] \in Nat
  BY DEF ScoreTable, Scores, Error
<1>2. QED
  BY <1>1 DEF Better, Choice

\* f holds the best of the first m modes for every m up to n.
SearchUpTo(s, f, n) ==
    \A m \in 0 .. n : f[m] = IF m = 0 THEN NoneYet ELSE Better(s, m - 1, f[m - 1])

\* The recursive definition of the search defines a function.
LEMMA SearchExists ==
    ASSUME NEW s \in ScoreTable
    PROVE  \E f \in [0 .. MaxMode -> Choice] : SearchUpTo(s, f, MaxMode)
<1> DEFINE T == {n \in Nat : n <= MaxMode =>
                               \E f \in [0 .. n -> Choice] : SearchUpTo(s, f, n)}
<1>1. MaxMode \in Nat
  BY BootAssumption
<1>2. NoneYet \in Choice
  BY <1>1 DEF NoneYet, Choice, NoMode
<1>3. 0 \in T
  <2> DEFINE f == [m \in 0 .. 0 |-> NoneYet]
  <2>1. f \in [0 .. 0 -> Choice] /\ SearchUpTo(s, f, 0)
    BY <1>2 DEF SearchUpTo
  <2>2. QED
    BY <2>1
<1>4. ASSUME NEW n \in Nat, n \in T, n + 1 <= MaxMode
      PROVE  \E g \in [0 .. n + 1 -> Choice] : SearchUpTo(s, g, n + 1)
  <2>1. PICK f \in [0 .. n -> Choice] : SearchUpTo(s, f, n)
    BY <1>1, <1>4
  <2> DEFINE g == [m \in 0 .. n + 1 |-> IF m = n + 1 THEN Better(s, n, f[n]) ELSE f[m]]
  <2>2. n \in Mode
    BY <1>1, <1>4 DEF Mode
  <2>3. Better(s, n, f[n]) \in Choice
    BY <2>2, BetterType
  <2>4. g \in [0 .. n + 1 -> Choice]
    BY <2>3
  <2>5. g[n + 1] = Better(s, n, f[n]) /\ \A m \in 0 .. n : g[m] = f[m]
    OBVIOUS
  <2> HIDE DEF g
  <2>6. SearchUpTo(s, g, n + 1)
    <3> SUFFICES ASSUME NEW m \in 0 .. n + 1
                 PROVE  g[m] = IF m = 0 THEN NoneYet ELSE Better(s, m - 1, g[m - 1])
      BY DEF SearchUpTo
    <3>1. CASE m = n + 1
      <4>1. m - 1 = n /\ n \in 0 .. n /\ m # 0
        BY <3>1
      <4>2. QED
        BY <2>5, <3>1, <4>1
    <3>2. CASE m \in 0 .. n
      <4>1. m # 0 => m - 1 \in 0 .. n
        BY <3>2
      <4>2. QED
        BY <2>1, <2>5, <3>2, <4>1 DEF SearchUpTo
    <3>3. QED
      BY <3>1, <3>2
  <2>7. QED
    BY <2>4, <2>6
<1>5. \A n \in Nat : n \in T => n + 1 \in T
  BY <1>4
<1>6. MaxMode \in T
  <2> HIDE DEF T
  <2> QED
    BY <1>1, <1>3, <1>5, SetInduction
<1>7. QED
  BY <1>1, <1>6

\* So Best(s) satisfies its defining equation.
LEMMA BestDef ==
    ASSUME NEW s \in ScoreTable
    PROVE  /\ Best(s)[0] = NoneYet
           /\ \A m \in Mode : Best(s)[m + 1] = Better(s, m, Best(s)[m])
<1> DEFINE IsSearch(f) ==
             f = [m \in 0 .. MaxMode |->
                    IF m = 0 THEN NoneYet ELSE Better(s, m - 1, f[m - 1])]
<1>1. PICK f \in [0 .. MaxMode -> Choice] : SearchUpTo(s, f, MaxMode)
  BY SearchExists
<1>2. IsSearch(f)
  BY <1>1 DEF SearchUpTo
<1>3. Best(s) = CHOOSE g : IsSearch(g)
  BY DEF Best
<1>4. IsSearch(Best(s))
  <2> HIDE DEF IsSearch
  <2> QED
    BY <1>2, <1>3
<1>5. MaxMode \in Nat
  BY BootAssumption
<1>6. \A m \in 0 .. MaxMode :
         Best(s)[m] = IF m = 0 THEN NoneYet ELSE Better(s, m - 1, Best(s)[m - 1])
  BY <1>4
<1>7. \A m \in Mode : m + 1 \in 0 .. MaxMode /\ m + 1 # 0 /\ (m + 1) - 1 = m
  BY <1>5 DEF Mode
<1>8. QED
  BY <1>5, <1>6, <1>7

\* Mode m has a score that counts.
Usable(s, m) == s[m] # Error /\ s[m] > 0

\* Choice b is right for the first n modes.
RightFor(s, b, n) ==
    \/ b = NoneYet /\ \A m \in Mode : m < n => ~Usable(s, m)
    \/ /\ b.mode \in Mode /\ b.mode < n /\ Usable(s, b.mode) /\ b.score = s[b.mode]
       /\ \A m \in Mode : m < n /\ Usable(s, m) =>
              s[m] < s[b.mode] \/ (s[m] = s[b.mode] /\ b.mode <= m)

\* One more mode keeps it right.
LEMMA BetterRight ==
    ASSUME NEW s \in ScoreTable, NEW n \in Mode, NEW b, RightFor(s, b, n)
    PROVE  RightFor(s, Better(s, n, b), n + 1)
<1> DEFINE c == [mode |-> n, score |-> s[n]]
<1>1. /\ MaxMode \in Nat /\ n \in Nat
      /\ \A m \in Mode : m \in Nat /\ s[m] \in Nat /\ (m < n + 1 <=> m < n \/ m = n)
  BY BootAssumption DEF Mode, ScoreTable, Scores, Error
<1>2. NoneYet.score = 0 /\ c.mode = n /\ c.score = s[n]
  BY DEF NoneYet
<1>3. Better(s, n, b) = IF s[n] # Error /\ s[n] > b.score THEN c ELSE b
  BY DEF Better
<1> HIDE DEF c
<1>4. CASE b = NoneYet /\ \A m \in Mode : m < n => ~Usable(s, m)
  <2>1. CASE Usable(s, n)
    <3>1. Better(s, n, b) = c
      BY <1>2, <1>3, <1>4, <2>1 DEF Usable
    <3>2. \A m \in Mode : m < n + 1 /\ Usable(s, m) => m = n
      BY <1>1, <1>4
    <3>3. QED
      BY <1>1, <1>2, <2>1, <3>1, <3>2 DEF RightFor
  <2>2. CASE ~Usable(s, n)
    <3>1. Better(s, n, b) = b
      BY <1>2, <1>3, <1>4, <2>2 DEF Usable
    <3>2. QED
      BY <1>1, <1>4, <2>2, <3>1 DEF RightFor
  <2>3. QED
    BY <2>1, <2>2
<1>5. CASE /\ b.mode \in Mode /\ b.mode < n /\ Usable(s, b.mode) /\ b.score = s[b.mode]
           /\ \A m \in Mode : m < n /\ Usable(s, m) =>
                s[m] < s[b.mode] \/ (s[m] = s[b.mode] /\ b.mode <= m)
  <2>1. b.mode \in Nat /\ s[b.mode] \in Nat /\ s[n] \in Nat /\ s[b.mode] > 0
    BY <1>1, <1>5 DEF Usable
  <2>2. CASE s[n] # Error /\ s[n] > s[b.mode]
    <3>1. Better(s, n, b) = c /\ Usable(s, n)
      BY <1>3, <1>5, <2>1, <2>2 DEF Usable
    <3>2. \A m \in Mode : m < n /\ Usable(s, m) => s[m] < s[n]
      BY <1>1, <1>5, <2>1, <2>2
    <3>3. \A m \in Mode : m < n + 1 /\ Usable(s, m) =>
              s[m] < s[n] \/ (s[m] = s[n] /\ n <= m)
      BY <1>1, <3>2
    <3>4. QED
      BY <1>1, <1>2, <3>1, <3>3 DEF RightFor
  <2>3. CASE ~(s[n] # Error /\ s[n] > s[b.mode])
    <3>1. Better(s, n, b) = b
      BY <1>3, <1>5, <2>3
    <3>2. Usable(s, n) => s[n] < s[b.mode] \/ (s[n] = s[b.mode] /\ b.mode <= n)
      BY <1>1, <1>5, <2>1, <2>3 DEF Usable
    <3>3. \A m \in Mode : m < n + 1 /\ Usable(s, m) =>
              s[m] < s[b.mode] \/ (s[m] = s[b.mode] /\ b.mode <= m)
      BY <1>1, <1>5, <3>2
    <3>4. b.mode < n + 1
      BY <1>1, <1>5, <2>1
    <3>5. QED
      BY <1>5, <3>1, <3>3, <3>4 DEF RightFor
  <2>4. QED
    BY <2>2, <2>3
<1>6. QED
  BY <1>4, <1>5 DEF RightFor

(***************************************************************************)
(* InitializeGraphics's loop finds the first of the modes with the highest *)
(* score, whatever the modes are, and none if no mode scores.              *)
(***************************************************************************)
THEOREM BestOfCorrect ==
    ASSUME NEW s \in ScoreTable
    PROVE  /\ BestOf(s) = NoMode \/ BestOf(s) \in Mode
           /\ BestOf(s) = NoMode => \A m \in Mode : ~Usable(s, m)
           /\ BestOf(s) # NoMode =>
                /\ Usable(s, BestOf(s))
                /\ \A m \in Mode : Usable(s, m) =>
                     \/ s[m] < s[BestOf(s)]
                     \/ s[m] = s[BestOf(s)] /\ BestOf(s) <= m
<1> DEFINE T == {n \in Nat : n <= MaxMode => RightFor(s, Best(s)[n], n)}
<1>1. MaxMode \in Nat /\ \A m \in Mode : m \in Nat /\ m < MaxMode /\ ~(m < 0)
  BY BootAssumption DEF Mode
<1>2. 0 \in T
  BY <1>1, BestDef DEF RightFor
<1>3. ASSUME NEW n \in Nat, n \in T
      PROVE  n + 1 \in T
  <2> SUFFICES ASSUME n + 1 <= MaxMode
               PROVE  RightFor(s, Best(s)[n + 1], n + 1)
    OBVIOUS
  <2>1. n \in Mode /\ n <= MaxMode
    BY <1>1 DEF Mode
  <2>2. RightFor(s, Best(s)[n], n)
    BY <1>3, <2>1
  <2>3. Best(s)[n + 1] = Better(s, n, Best(s)[n])
    BY <2>1, BestDef
  <2>4. QED
    BY <2>1, <2>2, <2>3, BetterRight
<1>4. MaxMode \in T
  <2> HIDE DEF T
  <2> QED
    BY <1>1, <1>2, <1>3, SetInduction
<1>5. RightFor(s, Best(s)[MaxMode], MaxMode)
  BY <1>1, <1>4
<1>6. NoneYet.mode = NoMode /\ NoMode \notin Mode
  BY <1>1 DEF NoneYet, NoMode, Mode
<1>7. QED
  BY <1>1, <1>5, <1>6 DEF RightFor, BestOf

-----------------------------------------------------------------------------
(***************************************************************************)
(* The resources: IndInv holds at the start, and every call keeps it,      *)
(* whether it succeeds or fails.                                           *)
(***************************************************************************)
LEMMA IndInvInit ==
    Init => IndInv
  BY BootAssumption DEF Init, IndInv, TypeOK, HeldAt, MapAt, WaitingAt, EventAt, HandlesAt,
     FilesAt, Steps, Resources, Mode, NoMode

\* The queries give every mode a score; the search picks one of the modes.
LEMMA QueryModesPreserves ==
    ASSUME IndInv, QueryModes
    PROVE  IndInv'
<1>1. PICK s \in ScoreTable :
         /\ score' = s /\ best_mode' = BestOf(s)
         /\ Succeeds(IF BestOf(s) = NoMode THEN "StoreGraphics" ELSE "SetMode",
                     IF \E m \in Mode : s[m] # Error THEN {"mode_info"} ELSE {}, {})
  BY DEF QueryModes, ScoreTable
<1>2. BestOf(s) \in Mode \cup {NoMode}
  BY BestOfCorrect
<1>3. /\ pc = "QueryModes" /\ pc' \in {"SetMode", "StoreGraphics"}
      /\ held' \in {held, held \cup {"mode_info"}}
      /\ UNCHANGED <<failed, graphics_info, services, wait_for>> /\ Disturb
  BY <1>1 DEF QueryModes, Succeeds
<1>4. TypeOK'
  BY <1>1, <1>2, <1>3 DEF IndInv, TypeOK, Disturb, Steps, Resources, ScoreTable
<1>5. HeldAt'
  BY <1>3 DEF IndInv, HeldAt, MapAt, WaitingAt, EventAt, HandlesAt, FilesAt
<1>6. QED
  BY <1>1, <1>3, <1>4, <1>5 DEF IndInv, TypeOK

\* One case per call.
LEMMA IndInvStep ==
    IndInv /\ [Next]_vars => IndInv'
<1> SUFFICES ASSUME IndInv, [Next]_vars PROVE IndInv'
  OBVIOUS
<1>1. CASE UNCHANGED vars
  BY <1>1 DEF vars, IndInv, TypeOK, HeldAt
<1>2. CASE QueryModes
  BY <1>2, QueryModesPreserves
<1>3. CASE LocateHandleBuffer
  <2>1. TypeOK'
    BY <1>3 DEF LocateHandleBuffer, Succeeds, Fails,
         IndInv, TypeOK, Disturb, Graphics, Steps, Resources
  <2>2. HeldAt'
    BY <1>3 DEF LocateHandleBuffer, Succeeds, Fails,
         IndInv, TypeOK, HeldAt, MapAt, WaitingAt, EventAt, HandlesAt, FilesAt
  <2>3. QED
    BY <1>3, <2>1, <2>2 DEF LocateHandleBuffer, Succeeds, Fails,
         IndInv, Graphics, TypeOK
<1>4. CASE HandleGop
  <2>1. TypeOK'
    BY <1>4 DEF HandleGop, Call, Succeeds, Fails,
         IndInv, TypeOK, Disturb, Graphics, Steps, Resources
  <2>2. HeldAt'
    BY <1>4 DEF HandleGop, Call, Succeeds, Fails,
         IndInv, TypeOK, HeldAt, MapAt, WaitingAt, EventAt, HandlesAt, FilesAt
  <2>3. QED
    BY <1>4, <2>1, <2>2 DEF HandleGop, Call, Succeeds, Fails,
         IndInv, Graphics, TypeOK
<1>5. CASE SetMode
  <2>1. TypeOK'
    BY <1>5 DEF SetMode, Call, Succeeds, Fails,
         IndInv, TypeOK, Disturb, Graphics, Steps, Resources
  <2>2. HeldAt'
    BY <1>5 DEF SetMode, Call, Succeeds, Fails,
         IndInv, TypeOK, HeldAt, MapAt, WaitingAt, EventAt, HandlesAt, FilesAt
  <2>3. QED
    BY <1>5, <2>1, <2>2 DEF SetMode, Call, Succeeds, Fails,
         IndInv, Graphics, TypeOK
<1>6. CASE StoreGraphics
  <2>1. TypeOK'
    BY <1>6 DEF StoreGraphics, Succeeds,
         IndInv, TypeOK, Disturb, Graphics, Steps, Resources
  <2>2. HeldAt'
    BY <1>6 DEF StoreGraphics, Succeeds,
         IndInv, TypeOK, HeldAt, MapAt, WaitingAt, EventAt, HandlesAt, FilesAt
  <2>3. QED
    BY <1>6, <2>1, <2>2 DEF StoreGraphics, Succeeds,
         IndInv, Graphics, TypeOK
<1>7. CASE ReportGraphics
  <2>1. TypeOK'
    BY <1>7 DEF ReportGraphics, Succeeds,
         IndInv, TypeOK, Disturb, Graphics, Steps, Resources
  <2>2. HeldAt'
    BY <1>7 DEF ReportGraphics, Succeeds,
         IndInv, TypeOK, HeldAt, MapAt, WaitingAt, EventAt, HandlesAt, FilesAt
  <2>3. QED
    BY <1>7, <2>1, <2>2 DEF ReportGraphics, Succeeds,
         IndInv, Graphics, TypeOK
<1>8. CASE LoadedImage
  <2>1. TypeOK'
    BY <1>8 DEF LoadedImage, Call, Succeeds, Fails,
         IndInv, TypeOK, Disturb, Graphics, Steps, Resources
  <2>2. HeldAt'
    BY <1>8 DEF LoadedImage, Call, Succeeds, Fails,
         IndInv, TypeOK, HeldAt, MapAt, WaitingAt, EventAt, HandlesAt, FilesAt
  <2>3. QED
    BY <1>8, <2>1, <2>2 DEF LoadedImage, Call, Succeeds, Fails,
         IndInv, Graphics, TypeOK
<1>9. CASE FileSystem
  <2>1. TypeOK'
    BY <1>9 DEF FileSystem, Call, Succeeds, Fails,
         IndInv, TypeOK, Disturb, Graphics, Steps, Resources
  <2>2. HeldAt'
    BY <1>9 DEF FileSystem, Call, Succeeds, Fails,
         IndInv, TypeOK, HeldAt, MapAt, WaitingAt, EventAt, HandlesAt, FilesAt
  <2>3. QED
    BY <1>9, <2>1, <2>2 DEF FileSystem, Call, Succeeds, Fails,
         IndInv, Graphics, TypeOK
<1>10. CASE OpenVolume
  <2>1. TypeOK'
    BY <1>10 DEF OpenVolume, Call, Succeeds, Fails,
         IndInv, TypeOK, Disturb, Graphics, Steps, Resources
  <2>2. HeldAt'
    BY <1>10 DEF OpenVolume, Call, Succeeds, Fails,
         IndInv, TypeOK, HeldAt, MapAt, WaitingAt, EventAt, HandlesAt, FilesAt
  <2>3. QED
    BY <1>10, <2>1, <2>2 DEF OpenVolume, Call, Succeeds, Fails,
         IndInv, Graphics, TypeOK
<1>11. CASE Open
  <2>1. TypeOK'
    BY <1>11 DEF Open, Call, Succeeds, Fails,
         IndInv, TypeOK, Disturb, Graphics, Steps, Resources
  <2>2. HeldAt'
    BY <1>11 DEF Open, Call, Succeeds, Fails,
         IndInv, TypeOK, HeldAt, MapAt, WaitingAt, EventAt, HandlesAt, FilesAt
  <2>3. QED
    BY <1>11, <2>1, <2>2 DEF Open, Call, Succeeds, Fails,
         IndInv, Graphics, TypeOK
<1>12. CASE AllocateInfo
  <2>1. TypeOK'
    BY <1>12 DEF AllocateInfo, Call, Succeeds, Fails,
         IndInv, TypeOK, Disturb, Graphics, Steps, Resources
  <2>2. HeldAt'
    BY <1>12 DEF AllocateInfo, Call, Succeeds, Fails,
         IndInv, TypeOK, HeldAt, MapAt, WaitingAt, EventAt, HandlesAt, FilesAt
  <2>3. QED
    BY <1>12, <2>1, <2>2 DEF AllocateInfo, Call, Succeeds, Fails,
         IndInv, Graphics, TypeOK
<1>13. CASE GetInfo
  <2>1. TypeOK'
    BY <1>13 DEF GetInfo, Call, Succeeds, Fails,
         IndInv, TypeOK, Disturb, Graphics, Steps, Resources
  <2>2. HeldAt'
    BY <1>13 DEF GetInfo, Call, Succeeds, Fails,
         IndInv, TypeOK, HeldAt, MapAt, WaitingAt, EventAt, HandlesAt, FilesAt
  <2>3. QED
    BY <1>13, <2>1, <2>2 DEF GetInfo, Call, Succeeds, Fails,
         IndInv, Graphics, TypeOK
<1>14. CASE AllocatePages
  <2>1. TypeOK'
    BY <1>14 DEF AllocatePages, Call, Succeeds, Fails,
         IndInv, TypeOK, Disturb, Graphics, Steps, Resources
  <2>2. HeldAt'
    BY <1>14 DEF AllocatePages, Call, Succeeds, Fails,
         IndInv, TypeOK, HeldAt, MapAt, WaitingAt, EventAt, HandlesAt, FilesAt
  <2>3. QED
    BY <1>14, <2>1, <2>2 DEF AllocatePages, Call, Succeeds, Fails,
         IndInv, Graphics, TypeOK
<1>15. CASE Read
  <2>1. TypeOK'
    BY <1>15 DEF Read, Call, Succeeds, Fails,
         IndInv, TypeOK, Disturb, Graphics, Steps, Resources
  <2>2. HeldAt'
    <3>1. pc = "Read" /\ wait_for' = wait_for /\ "map" \notin held
      BY <1>15 DEF Read, Call, IndInv, HeldAt, MapAt, WaitingAt, EventAt
    <3>2. CASE Succeeds("CleanUp", {}, {})
      BY <1>15, <3>1, <3>2 DEF Succeeds, IndInv, HeldAt, MapAt, WaitingAt, EventAt,
         HandlesAt, FilesAt, Read, Call
    <3>3. CASE Fails("error_exit", {"root", "file", "info", "kernel"})
      BY <1>15, <3>1, <3>3 DEF Fails, IndInv, HeldAt, MapAt, WaitingAt, EventAt,
         HandlesAt, FilesAt
    <3>4. QED
      BY <1>15, <3>2, <3>3 DEF Read, Call
  <2>3. QED
    BY <1>15, <2>1, <2>2 DEF Read, Call, Succeeds, Fails,
         IndInv, Graphics, TypeOK
<1>16. CASE CleanUp
  <2>1. TypeOK'
    BY <1>16 DEF CleanUp, Succeeds,
         IndInv, TypeOK, Disturb, Graphics, Steps, Resources
  <2>2. HeldAt'
    BY <1>16 DEF CleanUp, Succeeds,
         IndInv, TypeOK, HeldAt, MapAt, WaitingAt, EventAt, HandlesAt, FilesAt
  <2>3. QED
    BY <1>16, <2>1, <2>2 DEF CleanUp, Succeeds,
         IndInv, Graphics, TypeOK
<1>17. CASE MapSize
  <2>1. TypeOK'
    BY <1>17 DEF MapSize, Call, Succeeds, Fails,
         IndInv, TypeOK, Disturb, Graphics, Steps, Resources
  <2>2. HeldAt'
    BY <1>17 DEF MapSize, Call, Succeeds, Fails,
         IndInv, TypeOK, HeldAt, MapAt, WaitingAt, EventAt, HandlesAt, FilesAt
  <2>3. QED
    BY <1>17, <2>1, <2>2 DEF MapSize, Call, Succeeds, Fails,
         IndInv, Graphics, TypeOK
<1>18. CASE AllocateMap
  <2>1. TypeOK'
    BY <1>18 DEF AllocateMap, Call, Succeeds, Fails,
         IndInv, TypeOK, Disturb, Graphics, Steps, Resources
  <2>2. HeldAt'
    BY <1>18 DEF AllocateMap, Call, Succeeds, Fails,
         IndInv, TypeOK, HeldAt, MapAt, WaitingAt, EventAt, HandlesAt, FilesAt
  <2>3. QED
    BY <1>18, <2>1, <2>2 DEF AllocateMap, Call, Succeeds, Fails,
         IndInv, Graphics, TypeOK
<1>19. CASE GetMemoryMap
  <2>1. TypeOK'
    BY <1>19 DEF GetMemoryMap, Succeeds, Fails,
         IndInv, TypeOK, Disturb, Graphics, Steps, Resources
  <2>2. HeldAt'
    BY <1>19 DEF GetMemoryMap, Succeeds, Fails,
         IndInv, TypeOK, HeldAt, MapAt, WaitingAt, EventAt, HandlesAt, FilesAt
  <2>3. QED
    BY <1>19, <2>1, <2>2 DEF GetMemoryMap, Succeeds, Fails,
         IndInv, Graphics, TypeOK
<1>20. CASE CreateEvent
  <2>1. TypeOK'
    BY <1>20 DEF CreateEvent, Call, Succeeds, Fails,
         IndInv, TypeOK, Disturb, Graphics, Steps, Resources
  <2>2. HeldAt'
    BY <1>20 DEF CreateEvent, Call, Succeeds, Fails,
         IndInv, TypeOK, HeldAt, MapAt, WaitingAt, EventAt, HandlesAt, FilesAt
  <2>3. QED
    BY <1>20, <2>1, <2>2 DEF CreateEvent, Call, Succeeds, Fails,
         IndInv, Graphics, TypeOK
<1>21. CASE SetTimer
  <2>1. TypeOK'
    BY <1>21 DEF SetTimer, Call, Succeeds, Fails,
         IndInv, TypeOK, Disturb, Graphics, Steps, Resources
  <2>2. HeldAt'
    BY <1>21 DEF SetTimer, Call, Succeeds, Fails,
         IndInv, TypeOK, HeldAt, MapAt, WaitingAt, EventAt, HandlesAt, FilesAt
  <2>3. QED
    BY <1>21, <2>1, <2>2 DEF SetTimer, Call, Succeeds, Fails,
         IndInv, Graphics, TypeOK
<1>22. CASE WaitForEvent
  <2>1. TypeOK'
    BY <1>22 DEF WaitForEvent, Call, Succeeds, Fails,
         IndInv, TypeOK, Disturb, Graphics, Steps, Resources
  <2>2. HeldAt'
    BY <1>22 DEF WaitForEvent, Call, Succeeds, Fails,
         IndInv, TypeOK, HeldAt, MapAt, WaitingAt, EventAt, HandlesAt, FilesAt
  <2>3. QED
    BY <1>22, <2>1, <2>2 DEF WaitForEvent, Call, Succeeds, Fails,
         IndInv, Graphics, TypeOK
<1>23. CASE CloseEvent
  <2>1. TypeOK'
    BY <1>23 DEF CloseEvent, Succeeds,
         IndInv, TypeOK, Disturb, Graphics, Steps, Resources
  <2>2. HeldAt'
    BY <1>23 DEF CloseEvent, Succeeds,
         IndInv, TypeOK, HeldAt, MapAt, WaitingAt, EventAt, HandlesAt, FilesAt
  <2>3. QED
    BY <1>23, <2>1, <2>2 DEF CloseEvent, Succeeds,
         IndInv, Graphics, TypeOK
<1>24. CASE ExitBootServices
  <2>1. TypeOK'
    BY <1>24 DEF ExitBootServices, Succeeds, Fails,
         IndInv, TypeOK, Disturb, Graphics, Steps, Resources
  <2>2. HeldAt'
    BY <1>24 DEF ExitBootServices, Succeeds, Fails,
         IndInv, TypeOK, HeldAt, MapAt, WaitingAt, EventAt, HandlesAt, FilesAt
  <2>3. QED
    BY <1>24, <2>1, <2>2 DEF ExitBootServices, Succeeds, Fails,
         IndInv, Graphics, TypeOK
<1>25. CASE ErrorExit
  <2>1. TypeOK'
    BY <1>25 DEF ErrorExit, Succeeds,
         IndInv, TypeOK, Disturb, Graphics, Steps, Resources
  <2>2. HeldAt'
    BY <1>25 DEF ErrorExit, Succeeds,
         IndInv, TypeOK, HeldAt, MapAt, WaitingAt, EventAt, HandlesAt, FilesAt
  <2>3. QED
    BY <1>25, <2>1, <2>2 DEF ErrorExit, Succeeds,
         IndInv, Graphics, TypeOK
<1>26. QED
  BY <1>1, <1>2, <1>3, <1>4, <1>5, <1>6, <1>7, <1>8, <1>9, <1>10, <1>11, <1>12, <1>13,
     <1>14, <1>15, <1>16, <1>17, <1>18, <1>19, <1>20, <1>21, <1>22, <1>23, <1>24, <1>25
     DEF Next, InitializeGraphics, LoadKernel, SetupMemoryMap, WaitForKeyPress

\* The invariant holds throughout.
LEMMA IndInvHolds ==
    Spec => []IndInv
  BY IndInvInit, IndInvStep, PTL DEF Spec

(***************************************************************************)
(* The loader's state always has its type.                                 *)
(***************************************************************************)
THEOREM TypeCorrect ==
    Spec => []TypeOK
<1>1. IndInv => TypeOK
  BY DEF IndInv
<1>2. QED
  BY <1>1, IndInvHolds, PTL

(***************************************************************************)
(* Whatever firmware call fails, the kernel's file, its volume and the     *)
(* information buffer are not held outside LoadKernel, the handle buffer   *)
(* not outside InitializeGraphics, the timer's event not outside           *)
(* WaitForKeyPress, and a memory map only with a kernel.  (Nothing is said *)
(* of QueryMode's buffers, which no one frees, nor of the kernel's pages   *)
(* and the map, which stay held when error_exit returns.)                  *)
(***************************************************************************)
THEOREM FilesHandlesEventGivenBack ==
    Spec => []NoLeak
<1>1. IndInv => NoLeak
  BY DEF IndInv, HeldAt, NoLeak, InLoadKernel, FilesAt, HandlesAt, EventAt
<1>2. QED
  BY <1>1, IndInvHolds, PTL

(***************************************************************************)
(* The kernel is entered exactly when boot services have been exited, with *)
(* its image and the memory map in place and nothing else in use.          *)
(***************************************************************************)
THEOREM KernelEntered ==
    Spec => []KernelEntry
<1>1. IndInv => KernelEntry
  BY DEF IndInv, TypeOK, HeldAt, KernelEntry, Resources, FilesAt, HandlesAt, EventAt
<1>2. QED
  BY <1>1, IndInvHolds, PTL

(***************************************************************************)
(* The mode that InitializeGraphics sets is the first of those with the    *)
(* highest score, for every list of modes.                                 *)
(***************************************************************************)
THEOREM BestModeSet ==
    Spec => []BestModeChosen
<1>1. IndInv => BestModeChosen
  <2> SUFFICES ASSUME IndInv, pc \in {"SetMode", "StoreGraphics"}
               PROVE  BestModeChosen
    BY DEF BestModeChosen
  <2> DEFINE usable == {m \in Mode : score[m] # Error /\ score[m] > 0}
  <2>1. score \in ScoreTable /\ best_mode = BestOf(score)
    BY DEF IndInv, TypeOK, ScoreTable
  <2>2. \A m \in Mode : Usable(score, m) <=> m \in usable
    BY DEF Usable
  <2>3. CASE usable = {}
    <3>1. best_mode = NoMode
      BY <2>1, <2>2, <2>3, BestOfCorrect
    <3>2. QED
      BY <2>3, <3>1 DEF BestModeChosen
  <2>4. CASE usable # {}
    <3>1. /\ best_mode \in usable
          /\ \A m \in usable : \/ score[m] < score[best_mode]
                               \/ score[m] = score[best_mode] /\ best_mode <= m
      BY <2>1, <2>2, <2>4, BestOfCorrect
    <3>2. QED
      BY <2>4, <3>1 DEF BestModeChosen
  <2>5. QED
    BY <2>3, <2>4
<1>2. QED
  BY <1>1, IndInvHolds, PTL
=============================================================================
