------------------------- MODULE Frontend_proofs ---------------------------
(***************************************************************************)
(* Proofs about the frame loop, the launch thread and the renderer, for    *)
(* every number of images and frames in flight, every set of window sizes  *)
(* and every scenario.                                                     *)
(***************************************************************************)
EXTENDS Frontend, SequenceTheorems, TLAPS

Batch   == Nat \X Nat
Clear   == [title : Nat, chunk : Nat] \cup {None}
Scanout == [title : Nat, seq : Nat, pixels : BOOLEAN] \cup {None}
Scaled  == [content : Scanout, size : Sizes \cup {None}]
Submissions ==
  [frame : Frames, image : Images, copies : BOOLEAN, content : Scanout \cup Clear, size : Sizes]

RendererRecord ==
  [extent : Sizes, scanout : Scanout, dirty : BOOLEAN, clear : Clear, scaled : Scaled,
   upload : [Frames -> Scaled], fence : [Frames -> BOOLEAN],
   images_in_flight : [Images -> Frames \cup {None}], current_frame : Frames]

UiPoints ==
  {"poll", "dialog", "library", "rescan", "widgets", "launch", "commands", "fetch", "apply",
   "render", "submit", "recreate", "shutdown", "join", "exited"}
WorkerPoints ==
  {"none", "load", "run", "clear", "scanout", "commands", "finish", "exiting", "finished"}

UiRecord ==
  [pc : UiPoints, commands : Seq(Batch), clear : Clear, clear_seq : Nat,
   scanout : Scanout, scanout_seq : Nat, shown_clear : Nat, shown_scanout : Nat,
   image : Images \cup {None}, consumed : Seq(Batch)]
WorkerRecord == [pc : WorkerPoints, title : Nat, chunk : Nat, out : Output]
SharedRecord ==
  [running : BOOLEAN, latest_clear : Clear, clear_seq : Nat, latest_scanout : Scanout,
   scanout_seq : Nat, pending : Seq(Batch)]

LaunchTyped ==
  /\ scenario \in Scenarios
  /\ ui \in UiRecord
  /\ worker \in WorkerRecord
  /\ shared \in SharedRecord
  /\ published \in Seq(Batch)
RendererTyped ==
  /\ window \in Sizes \cup {Hidden}
  /\ renderer \in RendererRecord
  /\ gpu \in Seq(Submissions)
  /\ ui.pc = "submit" => ui.image \in Images

\* The queue of commands is empty but between the swap and the draw; a scan-out is held only
\* between its fetch and the upload; a moved-from one has been shown.
FetchInv ==
  /\ ui.pc \notin {"fetch", "apply"} => ui.commands = << >>
  /\ ui.scanout # None => ui.pc = "apply"
  /\ shared.latest_scanout # None =>
       /\ shared.latest_scanout.title = worker.title
       /\ ~shared.latest_scanout.pixels =>
            shared.scanout_seq = IF ui.pc = "apply" THEN ui.scanout_seq ELSE ui.shown_scanout

FencesInv ==
  /\ \A k \in 1..Len(gpu) :
       /\ ~renderer.fence[gpu[k].frame]
       /\ renderer.images_in_flight[gpu[k].image] = gpu[k].frame
       /\ \A j \in 1..Len(gpu) : gpu[j].frame = gpu[k].frame => j = k
  /\ ui.pc = "submit" => renderer.fence[renderer.current_frame]
  /\ renderer.scanout # None /\ ~renderer.dirty /\ renderer.scaled # Blank =>
       renderer.scaled = [content |-> renderer.scanout, size |-> renderer.extent]

LaunchInv == LaunchTyped /\ FetchInv /\ CommandsInOrder /\ PresentedIsCurrent

QuietPoints == UiPoints \ {"fetch", "apply"}

\* A step that leaves the launch thread's state alone and moves the frame loop
\* to another point outside fetch and apply, with or without an image.
LEMMA UiMoves ==
  ASSUME LaunchInv, UNCHANGED <<scenario, launchVars>>, ui.pc \in QuietPoints,
         NEW pc \in QuietPoints, NEW image \in Images \cup {None},
         ui' \in {[ui EXCEPT !.pc = pc], [ui EXCEPT !.pc = pc, !.image = image]}
  PROVE  LaunchInv'
<1>1. /\ ui' \in UiRecord
      /\ ui'.pc = pc /\ ui'.commands = ui.commands /\ ui'.scanout = ui.scanout
      /\ ui'.shown_scanout = ui.shown_scanout /\ ui'.consumed = ui.consumed
  BY DEF LaunchInv, LaunchTyped, QuietPoints, UiRecord
<1>2. LaunchTyped'
  BY <1>1 DEF LaunchInv, LaunchTyped, launchVars
<1>3. FetchInv'
  BY <1>1 DEF LaunchInv, FetchInv, launchVars, QuietPoints
<1>4. CommandsInOrder' /\ PresentedIsCurrent'
  BY <1>1 DEF LaunchInv, CommandsInOrder, PresentedIsCurrent, launchVars
<1>. QED
  BY <1>2, <1>3, <1>4 DEF LaunchInv

\* The scenario says which outputs a run can have.
LEMMA ScenarioTyped ==
  ASSUME LaunchTyped
  PROVE  /\ scenario.outputs \subseteq Output /\ scenario.images \subseteq Images
         /\ scenario.vulkan \in BOOLEAN /\ scenario.transfer \in BOOLEAN
BY FrontendAssumption DEF LaunchTyped

\* Steps of the launch thread.
LEMMA WorkerKeeps ==
  ASSUME LaunchInv, Worker
  PROVE  LaunchInv'
<1>0. /\ LaunchTyped /\ FetchInv /\ CommandsInOrder /\ PresentedIsCurrent
      /\ worker \in WorkerRecord /\ shared \in SharedRecord
  BY DEF LaunchInv, LaunchTyped
<1>1. UNCHANGED <<scenario, ui>> /\ worker'.title = worker.title
  BY <1>0
  DEF Worker, WorkerLoads, WorkerRuns, WorkerClears, WorkerScansOut, WorkerQueues,
      WorkerFinishes, WorkerEnds, WorkerStep, WorkerRecord
<1>2. worker' \in WorkerRecord
  <2>1. CASE WorkerRuns
    <3>1. scenario.outputs \subseteq Output /\ worker \in WorkerRecord
      BY <1>0, ScenarioTyped
    <3>2. worker.chunk + 1 \in Nat
      BY <1>0 DEF WorkerRecord, WorkerPoints
    <3>3. \/ worker' = [worker EXCEPT !.pc = "finish"]
          \/ \E out \in Output :
               worker' = [worker EXCEPT !.pc = "clear", !.chunk = worker.chunk + 1, !.out = out]
      BY <2>1, <3>1 DEF WorkerRuns
    <3>4. ASSUME NEW out \in Output, NEW n \in Nat,
                 worker' = [worker EXCEPT !.pc = "clear", !.chunk = n, !.out = out]
          PROVE  worker' \in WorkerRecord
      BY <1>0, <3>4 DEF WorkerRecord, WorkerPoints
    <3>5. ASSUME worker' = [worker EXCEPT !.pc = "finish"]
          PROVE  worker' \in WorkerRecord
      BY <1>0, <3>5 DEF WorkerRecord, WorkerPoints
    <3>. QED
      BY <3>2, <3>3, <3>4, <3>5
  <2>2. ASSUME NEW next \in WorkerPoints, worker' = [worker EXCEPT !.pc = next]
        PROVE  worker' \in WorkerRecord
    BY <1>0, <2>2 DEF WorkerRecord, WorkerPoints
  <2>3. CASE ~WorkerRuns
    <3>1. \E next \in {"run", "finish", "scanout", "commands", "exiting", "finished"} :
            worker' = [worker EXCEPT !.pc = next]
      BY <2>3
      DEF Worker, WorkerLoads, WorkerClears, WorkerScansOut, WorkerQueues,
          WorkerFinishes, WorkerEnds, WorkerStep
    <3>. QED
      BY <2>2, <3>1 DEF WorkerPoints
  <2>. QED
    BY <2>1, <2>3
<1>3. PresentedIsCurrent'
  BY <1>0, <1>1 DEF PresentedIsCurrent
<1>4. CASE UNCHANGED <<shared, published>>
  BY <1>0, <1>1, <1>2, <1>3, <1>4 DEF LaunchInv, LaunchTyped, FetchInv, CommandsInOrder
<1>5. CASE WorkerClears
  <2>1. /\ published' = published
        /\ shared' \in SharedRecord
        /\ shared'.latest_scanout = shared.latest_scanout
        /\ shared'.scanout_seq = shared.scanout_seq /\ shared'.pending = shared.pending
    <3>. DEFINE clear == [title |-> worker.title, chunk |-> worker.chunk]
    <3>1. clear \in Clear
      BY <1>0 DEF Clear, WorkerRecord
    <3>2. /\ published' = published
          /\ shared' = shared
               \/ shared' = [shared EXCEPT !.latest_clear = clear, !.clear_seq = @ + 1]
      BY <1>5 DEF WorkerClears
    <3>. HIDE DEF clear
    <3>3. shared.clear_seq + 1 \in Nat
      BY <1>0 DEF SharedRecord
    <3>. QED
      BY <1>0, <3>1, <3>2, <3>3 DEF SharedRecord
  <2>. QED
    BY <1>0, <1>1, <1>2, <1>3, <2>1 DEF LaunchInv, LaunchTyped, FetchInv, CommandsInOrder
<1>6. CASE WorkerScansOut /\ ~UNCHANGED shared
  <2>. DEFINE scanout == [title |-> worker.title, seq |-> shared.scanout_seq + 1, pixels |-> TRUE]
  <2>1. scanout \in Scanout
    BY <1>0 DEF Scanout, WorkerRecord, SharedRecord
  <2>2. scanout.title = worker.title /\ scanout.pixels
    OBVIOUS
  <2>3. /\ published' = published
        /\ shared' = [shared EXCEPT !.latest_scanout = scanout, !.scanout_seq = @ + 1]
    BY <1>6 DEF WorkerScansOut
  <2>. HIDE DEF scanout
  <2>4. /\ shared' \in SharedRecord
        /\ shared'.latest_scanout = scanout /\ shared'.pending = shared.pending
    <3>1. shared.scanout_seq + 1 \in Nat
      BY <1>0 DEF SharedRecord
    <3>. QED
      BY <1>0, <2>1, <2>3, <3>1 DEF SharedRecord
  <2>. QED
    BY <1>0, <1>1, <1>2, <1>3, <2>2, <2>3, <2>4 DEF LaunchInv, LaunchTyped, FetchInv, CommandsInOrder
<1>7. CASE WorkerQueues
  <2>1. PICK batch \in Seq(Batch) :
          /\ shared' = [shared EXCEPT !.pending = @ \o batch]
          /\ published' = published \o batch
    <3>1. <<worker.title, worker.chunk>> \in Batch
      BY <1>0 DEF Batch, WorkerRecord
    <3>2. <<>> \in Seq(Batch) /\ <<<<worker.title, worker.chunk>>>> \in Seq(Batch)
      BY <3>1
    <3>. QED
      BY <1>7, <3>2 DEF WorkerQueues
  <2>2. /\ shared.pending \in Seq(Batch) /\ published \in Seq(Batch)
        /\ ui.consumed \in Seq(Batch) /\ ui.commands \in Seq(Batch)
    BY <1>0 DEF LaunchTyped, UiRecord, SharedRecord
  <2>3. /\ shared.pending \o batch \in Seq(Batch) /\ published' \in Seq(Batch)
    BY <2>1, <2>2, ConcatProperties
  <2>4. /\ shared' \in SharedRecord
        /\ shared'.latest_scanout = shared.latest_scanout
        /\ shared'.scanout_seq = shared.scanout_seq
        /\ shared'.pending = shared.pending \o batch
    BY <1>0, <2>1, <2>3 DEF SharedRecord
  <2>5. CommandsInOrder'
    <3>. DEFINE taken == ui.consumed \o ui.commands
    <3>1. taken \in Seq(Batch)
      BY <2>2, ConcatProperties
    <3>2. scenario.vulkan => published = taken \o shared.pending
      BY <1>0 DEF CommandsInOrder
    <3>. HIDE DEF taken
    <3>3. (taken \o shared.pending) \o batch = taken \o (shared.pending \o batch)
      <4>. DEFINE pending == shared.pending
      <4>1. pending \in Seq(Batch) /\ batch \in Seq(Batch)
        BY <2>1, <2>2
      <4>. HIDE DEF pending
      <4>2. (taken \o pending) \o batch = taken \o (pending \o batch)
        BY <3>1, <4>1, ConcatAssociative
      <4>. QED
        BY <4>2 DEF pending
    <3>4. scenario.vulkan => published' = taken \o shared'.pending
      BY <2>1, <2>4, <3>2, <3>3
    <3>. QED
      BY <1>1, <3>4 DEF CommandsInOrder, taken
  <2>. QED
    BY <1>0, <1>1, <1>2, <1>3, <2>3, <2>4, <2>5 DEF LaunchInv, LaunchTyped, FetchInv
<1>8. CASE WorkerFinishes
  <2>1. /\ published' = published
        /\ shared' \in SharedRecord
        /\ shared'.latest_scanout = shared.latest_scanout
        /\ shared'.scanout_seq = shared.scanout_seq /\ shared'.pending = shared.pending
    BY <1>0, <1>8 DEF WorkerFinishes, SharedRecord
  <2>. QED
    BY <1>0, <1>1, <1>2, <1>3, <2>1 DEF LaunchInv, LaunchTyped, FetchInv, CommandsInOrder
<1>. QED
  BY <1>4, <1>5, <1>6, <1>7, <1>8
  DEF Worker, WorkerLoads, WorkerRuns, WorkerScansOut, WorkerEnds

\* A double click: shared.running and the point of the frame loop change.
LEMMA ChooseKeeps ==
  ASSUME LaunchInv, ChooseGame
  PROVE  LaunchInv'
<1>0. /\ LaunchTyped /\ FetchInv /\ CommandsInOrder /\ PresentedIsCurrent
      /\ ui \in UiRecord /\ shared \in SharedRecord
  BY DEF LaunchInv, LaunchTyped
<1>1. /\ ui' \in UiRecord /\ ui.pc = "widgets" /\ ui'.pc \in {"commands", "launch"}
      /\ ui'.commands = ui.commands /\ ui'.scanout = ui.scanout
      /\ ui'.shown_scanout = ui.shown_scanout /\ ui'.consumed = ui.consumed
  BY <1>0 DEF ChooseGame, Goto, UiRecord, UiPoints
<1>2. /\ shared' \in SharedRecord /\ shared'.latest_scanout = shared.latest_scanout
      /\ shared'.scanout_seq = shared.scanout_seq /\ shared'.pending = shared.pending
  BY <1>0 DEF ChooseGame, SharedRecord
<1>3. UNCHANGED <<scenario, worker, published>>
  BY DEF ChooseGame
<1>. QED
  BY <1>0, <1>1, <1>2, <1>3
  DEF LaunchInv, LaunchTyped, FetchInv, CommandsInOrder, PresentedIsCurrent

\* launch_game drops the last title's scan-out before the next title starts.
LEMMA LaunchKeeps ==
  ASSUME LaunchInv, LaunchGame
  PROVE  LaunchInv'
<1>0. /\ LaunchTyped /\ FetchInv /\ CommandsInOrder /\ PresentedIsCurrent
      /\ ui \in UiRecord /\ shared \in SharedRecord /\ worker \in WorkerRecord
  BY DEF LaunchInv, LaunchTyped
<1>1. /\ ui' \in UiRecord /\ ui.pc = "launch" /\ ui'.pc = "commands"
      /\ ui'.commands = ui.commands /\ ui'.scanout = ui.scanout
      /\ ui'.shown_scanout = ui.shown_scanout /\ ui'.consumed = ui.consumed
  BY <1>0 DEF LaunchGame, Goto, UiRecord, UiPoints
<1>2. shared' \in SharedRecord /\ shared'.latest_scanout = None /\ shared'.pending = shared.pending
  <2>1. shared.scanout_seq + 1 \in Nat
    BY <1>0 DEF SharedRecord
  <2>. QED
    BY <1>0, <2>1 DEF LaunchGame, SharedRecord, Scanout
<1>3. worker' \in WorkerRecord
  <2>1. NoOutput \in Output /\ worker.title + 1 \in Nat
    BY <1>0 DEF NoOutput, Output, WorkerRecord
  <2>. QED
    BY <1>0, <2>1 DEF LaunchGame, WorkerRecord, WorkerPoints
<1>4. UNCHANGED <<scenario, published>>
  BY DEF LaunchGame
<1>5. ui.scanout = None
  BY <1>0, <1>1 DEF FetchInv
<1>. QED
  BY <1>0, <1>1, <1>2, <1>3, <1>4, <1>5
  DEF LaunchInv, LaunchTyped, FetchInv, CommandsInOrder, PresentedIsCurrent

\* Where the frame loop goes after a frame.
LEMMA FrameEndIsQuiet == FrameEnd \in QuietPoints
BY DEF FrameEnd, QuietPoints, UiPoints

\* The swap of the command queue moves the batches, it neither drops nor copies
\* them.
LEMMA TakeKeeps ==
  ASSUME LaunchInv, TakeCommands
  PROVE  LaunchInv'
<1>0. /\ LaunchTyped /\ FetchInv /\ CommandsInOrder /\ PresentedIsCurrent
      /\ ui \in UiRecord /\ shared \in SharedRecord
  BY DEF LaunchInv, LaunchTyped
<1>. DEFINE taken   == IF scenario.vulkan THEN shared.pending ELSE <<>>
            next    == IF scenario.vulkan THEN "fetch" ELSE FrameEnd
            pending == shared.pending
            consumed == ui.consumed
<1>1. /\ taken \in Seq(Batch) /\ pending \in Seq(Batch) /\ consumed \in Seq(Batch)
      /\ <<>> \in Seq(Batch)
  BY <1>0 DEF SharedRecord, UiRecord
<1>2. next \in UiPoints /\ next # "apply" /\ (~scenario.vulkan => next # "fetch")
  BY FrameEndIsQuiet DEF UiPoints, QuietPoints
<1>3. /\ ui' = [ui EXCEPT !.pc = next, !.commands = taken]
      /\ shared' = [shared EXCEPT !.pending = <<>>]
      /\ ui.pc = "commands" /\ UNCHANGED <<scenario, worker, published>>
  BY DEF TakeCommands
<1>4. ui.commands = <<>>
  BY <1>0, <1>3 DEF FetchInv
<1>5. scenario.vulkan => published = consumed \o pending
  <2>. HIDE DEF consumed
  <2>1. consumed \o <<>> = consumed
    BY <1>1, ConcatEmptySeq
  <2>2. scenario.vulkan => published = (consumed \o <<>>) \o pending
    BY <1>0, <1>4 DEF CommandsInOrder, consumed
  <2>. QED
    BY <2>1, <2>2
<1>6. scenario.vulkan => taken = pending /\ next = "fetch"
  OBVIOUS
<1>7. ~scenario.vulkan => taken = <<>>
  OBVIOUS
<1>. HIDE DEF taken, next
<1>8. /\ ui' \in UiRecord /\ ui'.pc = next /\ ui'.commands = taken
      /\ ui'.scanout = ui.scanout /\ ui'.shown_scanout = ui.shown_scanout
      /\ ui'.consumed = consumed
  BY <1>0, <1>1, <1>2, <1>3 DEF UiRecord
<1>9. /\ shared' \in SharedRecord /\ shared'.latest_scanout = shared.latest_scanout
      /\ shared'.scanout_seq = shared.scanout_seq /\ shared'.pending = <<>>
  BY <1>0, <1>1, <1>3 DEF SharedRecord
<1>10. LaunchTyped'
  BY <1>0, <1>3, <1>8, <1>9 DEF LaunchTyped
<1>11. FetchInv'
  BY <1>0, <1>2, <1>3, <1>6, <1>7, <1>8, <1>9 DEF FetchInv
<1>12. CommandsInOrder'
  <2>. HIDE DEF consumed, pending
  <2>1. (consumed \o pending) \o <<>> = consumed \o pending
    <3>1. consumed \o pending \in Seq(Batch)
      BY <1>1, ConcatProperties
    <3>. QED
      BY <3>1, ConcatEmptySeq
  <2>2. scenario.vulkan => published' = (ui'.consumed \o ui'.commands) \o shared'.pending
    BY <1>3, <1>5, <1>6, <1>8, <1>9, <2>1
  <2>. QED
    BY <1>3, <2>2 DEF CommandsInOrder
<1>13. PresentedIsCurrent'
  BY <1>0, <1>3, <1>8 DEF FetchInv, PresentedIsCurrent
<1>. QED
  BY <1>10, <1>11, <1>12, <1>13 DEF LaunchInv

\* A fetched scan-out has its pixels and is the running title's: one that was
\* moved from before has the sequence number the frame loop has shown.
LEMMA FetchKeeps ==
  ASSUME LaunchInv, FetchLatest
  PROVE  LaunchInv'
<1>0. /\ LaunchTyped /\ FetchInv /\ CommandsInOrder /\ PresentedIsCurrent
      /\ ui \in UiRecord /\ shared \in SharedRecord
  BY DEF LaunchInv, LaunchTyped
<1>. DEFINE latest == shared.latest_scanout
            fresh  == shared.scanout_seq # ui.shown_scanout /\ latest # None
            given  == IF fresh THEN latest ELSE None
<1>1. latest \in Scanout /\ given \in Scanout /\ None \in Scanout
  BY <1>0 DEF SharedRecord, Scanout
<1>2. /\ ui.pc = "fetch"
      /\ ui' = [ui EXCEPT !.pc = "apply", !.clear = shared.latest_clear,
                          !.clear_seq = shared.clear_seq, !.scanout = given,
                          !.scanout_seq = shared.scanout_seq]
      /\ UNCHANGED <<scenario, worker, published>>
  BY DEF FetchLatest
<1>3. shared' = IF fresh THEN [shared EXCEPT !.latest_scanout.pixels = FALSE] ELSE shared
  BY DEF FetchLatest
<1>4. latest # None =>
        /\ latest.title = worker.title
        /\ ~latest.pixels => shared.scanout_seq = ui.shown_scanout
  BY <1>0, <1>2 DEF FetchInv
<1>5. given # None => given.title = worker.title /\ given.pixels
  BY <1>1, <1>4 DEF Scanout
<1>6. /\ ui' \in UiRecord /\ ui'.pc = "apply" /\ ui'.commands = ui.commands
      /\ ui'.scanout = given /\ ui'.scanout_seq = shared.scanout_seq
      /\ ui'.consumed = ui.consumed
  <2>. HIDE DEF given
  <2>1. shared.latest_clear \in Clear /\ shared.clear_seq \in Nat /\ shared.scanout_seq \in Nat
    BY <1>0 DEF SharedRecord
  <2>. QED
    BY <1>0, <1>1, <1>2, <2>1 DEF UiRecord, UiPoints
<1>7. /\ shared' \in SharedRecord
      /\ shared'.scanout_seq = shared.scanout_seq /\ shared'.pending = shared.pending
      /\ shared'.latest_scanout # None => shared'.latest_scanout.title = worker.title
  <2>1. CASE fresh
    <3>. DEFINE moved == [latest EXCEPT !.pixels = FALSE]
    <3>1. moved \in Scanout /\ moved.title = latest.title
      BY <1>1, <2>1 DEF Scanout
    <3>2. shared' = [shared EXCEPT !.latest_scanout = moved]
      BY <1>3, <2>1
    <3>. HIDE DEF moved
    <3>3. /\ shared' \in SharedRecord /\ shared'.latest_scanout = moved
          /\ shared'.scanout_seq = shared.scanout_seq /\ shared'.pending = shared.pending
      BY <1>0, <3>1, <3>2 DEF SharedRecord
    <3>. QED
      BY <1>4, <2>1, <3>1, <3>3
  <2>2. CASE ~fresh
    BY <1>0, <1>3, <1>4, <2>2
  <2>. QED
    BY <2>1, <2>2
<1>. HIDE DEF given, fresh
<1>8. LaunchTyped'
  BY <1>0, <1>2, <1>6, <1>7 DEF LaunchTyped
<1>9. FetchInv'
  BY <1>2, <1>6, <1>7 DEF FetchInv
<1>10. CommandsInOrder' /\ PresentedIsCurrent'
  BY <1>0, <1>2, <1>5, <1>6, <1>7 DEF CommandsInOrder, PresentedIsCurrent
<1>. QED
  BY <1>8, <1>9, <1>10 DEF LaunchInv

\* Applying what was fetched consumes the commands and remembers what is shown.
LEMMA ApplyKeeps ==
  ASSUME LaunchInv, ApplyLatest
  PROVE  LaunchInv'
<1>0. /\ LaunchTyped /\ FetchInv /\ CommandsInOrder /\ PresentedIsCurrent
      /\ ui \in UiRecord /\ shared \in SharedRecord
  BY DEF LaunchInv, LaunchTyped
<1>. DEFINE taken   == ui.commands
            consumed == ui.consumed
            all     == consumed \o taken
            pending == shared.pending
<1>1. /\ taken \in Seq(Batch) /\ pending \in Seq(Batch) /\ consumed \in Seq(Batch)
      /\ <<>> \in Seq(Batch) /\ None \in Scanout
  BY <1>0 DEF SharedRecord, UiRecord, Scanout
<1>2. all \in Seq(Batch)
  <2>. HIDE DEF taken, consumed
  <2>. QED
    BY <1>1, ConcatProperties
<1>3. /\ ui.pc = "apply"
      /\ ui' = [ui EXCEPT !.pc = "render", !.consumed = all, !.commands = <<>>,
                          !.shown_clear = ui.clear_seq, !.shown_scanout = ui.scanout_seq,
                          !.scanout = None]
      /\ UNCHANGED <<scenario, launchVars>>
  BY DEF ApplyLatest
<1>4. scenario.vulkan => published = all \o pending
  BY <1>0 DEF CommandsInOrder
<1>. HIDE DEF all
<1>5. all \o <<>> = all
  BY <1>2, ConcatEmptySeq
<1>6. /\ ui' \in UiRecord /\ ui'.pc = "render" /\ ui'.commands = <<>> /\ ui'.consumed = all
      /\ ui'.scanout = None /\ ui'.shown_scanout = ui.scanout_seq
  BY <1>0, <1>1, <1>2, <1>3 DEF UiRecord, UiPoints
<1>7. LaunchTyped'
  BY <1>0, <1>3, <1>6 DEF LaunchTyped, launchVars
<1>8. FetchInv'
  BY <1>0, <1>3, <1>6 DEF FetchInv, launchVars
<1>9. CommandsInOrder' /\ PresentedIsCurrent'
  BY <1>3, <1>4, <1>5, <1>6 DEF CommandsInOrder, PresentedIsCurrent, launchVars
<1>. QED
  BY <1>7, <1>8, <1>9 DEF LaunchInv

\* The frame loop's other steps leave the launch thread's state alone.
LEMMA OthersKeep ==
  ASSUME LaunchInv,
         \/ Poll \/ TakeFolders \/ TakeListing \/ StartLibraryScan \/ NoWidget \/ AddGameFolder
         \/ RenderNothing \/ RenderResized \/ RenderAcquire \/ RenderSubmit \/ RenderRecreate
         \/ Shutdown \/ JoinThreads
  PROVE  LaunchInv'
<1>1. UNCHANGED <<scenario, launchVars>> /\ ui.pc \in QuietPoints
  BY DEF Poll, TakeFolders, TakeListing, StartLibraryScan, NoWidget, AddGameFolder, RenderNothing,
         RenderResized, RenderAcquire, RenderSubmit, RenderRecreate, Shutdown, JoinThreads,
         QuietPoints, UiPoints
<1>2. FrameEnd \in QuietPoints /\ None \in Images \cup {None}
  BY FrameEndIsQuiet
<1>3. CASE RenderAcquire
  <2>1. \/ \E i \in Images : ui' = [ui EXCEPT !.pc = "submit", !.image = i]
        \/ ui' = [ui EXCEPT !.pc = "recreate"]
    BY <1>3, ScenarioTyped DEF LaunchInv, RenderAcquire, Goto
  <2>2. "submit" \in QuietPoints /\ "recreate" \in QuietPoints
    BY DEF QuietPoints, UiPoints
  <2>3. CASE ui' = [ui EXCEPT !.pc = "recreate"]
    BY <1>1, <1>2, <2>2, <2>3, UiMoves
  <2>4. ASSUME NEW i \in Images, ui' = [ui EXCEPT !.pc = "submit", !.image = i]
        PROVE  LaunchInv'
    BY <1>1, <2>2, <2>4, UiMoves
  <2>. QED
    BY <2>1, <2>3, <2>4
<1>4. CASE RenderSubmit
  <2>1. \E pc \in {FrameEnd, "recreate"} : ui' = [ui EXCEPT !.pc = pc, !.image = None]
    BY <1>4 DEF RenderSubmit
  <2>2. "recreate" \in QuietPoints
    BY DEF QuietPoints, UiPoints
  <2>3. PICK pc \in QuietPoints : ui' = [ui EXCEPT !.pc = pc, !.image = None]
    BY <1>2, <2>1, <2>2
  <2>. QED
    BY <1>1, <1>2, <2>3, UiMoves
<1>5. CASE ~RenderAcquire /\ ~RenderSubmit
  <2>1. \E pc \in {"dialog", "library", "rescan", "widgets", "commands", "recreate", "join",
                   "exited", FrameEnd} : ui' = [ui EXCEPT !.pc = pc]
    BY <1>5
    DEF Poll, TakeFolders, TakeListing, StartLibraryScan, NoWidget, AddGameFolder, RenderNothing,
        RenderResized, RenderRecreate, Shutdown, JoinThreads, Goto
  <2>2. PICK pc \in QuietPoints : ui' = [ui EXCEPT !.pc = pc]
    BY <1>2, <2>1 DEF QuietPoints, UiPoints
  <2>. QED
    BY <1>1, <1>2, <2>2, UiMoves
<1>. QED
  BY <1>3, <1>4, <1>5

LEMMA LaunchStep ==
  ASSUME LaunchInv, [Next]_vars
  PROVE  LaunchInv'
<1>1. CASE Ui
  BY <1>1, OthersKeep, ChooseKeeps, LaunchKeeps, TakeKeeps, FetchKeeps, ApplyKeeps DEF Ui
<1>2. CASE Worker
  BY <1>2, WorkerKeeps
<1>3. CASE ScanFinishes \/ FolderSelected \/ Gpu \/ Resize \/ UNCHANGED vars
  <2>1. UNCHANGED <<scenario, ui, launchVars>>
    BY <1>3 DEF ScanFinishes, FolderSelected, Gpu, Resize, vars
  <2>. QED
    BY <2>1
    DEF LaunchInv, LaunchTyped, FetchInv, CommandsInOrder, PresentedIsCurrent, launchVars
<1>. QED
  BY <1>1, <1>2, <1>3 DEF Next

LEMMA LaunchInit ==
  ASSUME Init
  PROVE  LaunchInv
<1>1. /\ ui.pc = "poll" /\ ui.commands = <<>> /\ ui.scanout = None /\ ui.consumed = <<>>
      /\ ui \in UiRecord
  BY DEF Init, UiRecord, UiPoints, Clear, Scanout, Batch
<1>2. /\ shared \in SharedRecord /\ shared.latest_scanout = None /\ shared.pending = <<>>
  BY DEF Init, SharedRecord, Clear, Scanout, Batch
<1>3. worker \in WorkerRecord
  BY DEF Init, WorkerRecord, WorkerPoints, NoOutput, Output
<1>4. published = <<>> /\ scenario \in Scenarios
  BY DEF Init
<1>5. (<<>> \o <<>>) \o <<>> = <<>>
  BY ConcatEmptySeq
<1>. QED
  BY <1>1, <1>2, <1>3, <1>4, <1>5
  DEF LaunchInv, LaunchTyped, FetchInv, CommandsInOrder, PresentedIsCurrent

THEOREM LaunchCorrect == Spec => []LaunchInv
<1>1. Init => LaunchInv
  BY LaunchInit
<1>2. LaunchInv /\ [Next]_vars => LaunchInv'
  BY LaunchStep
<1>. QED
  BY <1>1, <1>2, PTL DEF Spec

\* Whatever the locks let in between, the frame loop draws the command batches that the launch
\* threads publish, all of them, once each and in their order.
THEOREM CommandsDrawnInOrder == Spec => []CommandsInOrder
<1>1. LaunchInv => CommandsInOrder
  BY DEF LaunchInv
<1>. QED
  BY <1>1, LaunchCorrect, PTL

\* A scan-out reaches the renderer with its pixels and from the title that runs: a moved-from
\* one is never fetched again, and launch_game drops the last title's.
THEOREM ScanoutsAreCurrent == Spec => []PresentedIsCurrent
<1>1. LaunchInv => PresentedIsCurrent
  BY DEF LaunchInv
<1>. QED
  BY <1>1, LaunchCorrect, PTL

\* ---- The renderer ------------------------------------------------------------------------

RendererInv == RendererTyped /\ FencesInv /\ FramesIntact /\ ImagesExclusive

LEMMA FramesTyped ==
  /\ 0 \in Frames /\ None \notin Frames /\ None \notin Images
  /\ \A f \in Frames : (f + 1) % FramesInFlight \in Frames
BY VulkanRendererAssumption DEF Frames

\* Steps that leave the device alone, and the frame loop outside of submit.
LEMMA DeviceUntouched ==
  ASSUME RendererInv, UNCHANGED <<renderer, gpu>>, window' \in Sizes \cup {Hidden},
         ui'.pc = "submit" => ui = ui' \/ (ui'.image \in Images /\ renderer.fence[renderer.current_frame])
  PROVE  RendererInv'
BY DEF RendererInv, RendererTyped, FencesInv, FramesIntact, ImagesExclusive

\* What recording a frame changes.
LEMMA RecordedFields ==
  ASSUME NEW r \in RendererRecord, NEW image \in Images
  PROVE  /\ Recorded(r, image) \in RendererRecord
         /\ Recorded(r, image).extent = r.extent
         /\ Recorded(r, image).scanout = r.scanout
         /\ Recorded(r, image).fence = [r.fence EXCEPT ![r.current_frame] = FALSE]
         /\ Recorded(r, image).images_in_flight
              = [r.images_in_flight EXCEPT ![image] = r.current_frame]
         /\ r.scanout = None => /\ Recorded(r, image).scaled = r.scaled
                                /\ Recorded(r, image).dirty = r.dirty
                                /\ Recorded(r, image).upload = r.upload
         /\ r.scanout # None =>
              /\ Recorded(r, image).upload
                   = [r.upload EXCEPT ![r.current_frame] = Recorded(r, image).scaled]
              /\ Recorded(r, image).scaled
                   = IF r.dirty \/ r.scaled = Blank
                     THEN [content |-> r.scanout, size |-> r.extent] ELSE r.scaled
<1>. DEFINE s == IF r.scanout # None THEN Rescaled(r) ELSE r
            f == r.current_frame
            up == IF r.scanout # None THEN [s.upload EXCEPT ![f] = s.scaled] ELSE s.upload
            fen == [s.fence EXCEPT ![f] = FALSE]
            inflight == [s.images_in_flight EXCEPT ![image] = f]
            next == (f + 1) % FramesInFlight
<1>1. /\ r.extent \in Sizes /\ r.scanout \in Scanout /\ r.dirty \in BOOLEAN
      /\ r.scaled \in Scaled /\ r.upload \in [Frames -> Scaled] /\ r.fence \in [Frames -> BOOLEAN]
      /\ r.images_in_flight \in [Images -> Frames \cup {None}] /\ f \in Frames
  BY DEF RendererRecord
<1>. DEFINE fresh == [content |-> r.scanout, size |-> r.extent]
<1>2. fresh \in Scaled
  BY <1>1 DEF Scaled
<1>. HIDE DEF fresh
<1>3. /\ s \in RendererRecord /\ s.extent = r.extent /\ s.scanout = r.scanout
      /\ s.upload = r.upload /\ s.fence = r.fence /\ s.current_frame = f
      /\ s.images_in_flight = r.images_in_flight
      /\ r.scanout = None => s = r
      /\ r.scanout # None => s.scaled = IF r.dirty \/ r.scaled = Blank THEN fresh ELSE r.scaled
  <2>1. Rescaled(r) = IF r.dirty \/ r.scaled = Blank
                      THEN [r EXCEPT !.scaled = fresh, !.dirty = FALSE] ELSE r
    BY DEF Rescaled, fresh
  <2>. QED
    BY <1>1, <1>2, <2>1 DEF RendererRecord
<1>4. s.scaled \in Scaled /\ next \in Frames
  BY <1>1, <1>3, FramesTyped DEF RendererRecord
<1>5. Recorded(r, image) = [s EXCEPT !.upload = up, !.images_in_flight = inflight,
                                     !.fence = fen, !.current_frame = next]
  <2>1. Recorded(r, image) = [s EXCEPT !.upload[f] = IF r.scanout # None THEN s.scaled ELSE @,
                                       !.images_in_flight[image] = f, !.fence[f] = FALSE,
                                       !.current_frame = (@ + 1) % FramesInFlight]
    BY DEF Recorded
  <2>2. r.scanout = None => [s.upload EXCEPT ![f] = @] = s.upload
    BY <1>1, <1>3
  <2>. HIDE DEF s
  <2>. QED
    BY <1>1, <1>3, <2>1, <2>2 DEF RendererRecord
<1>6. /\ up \in [Frames -> Scaled] /\ fen \in [Frames -> BOOLEAN]
      /\ inflight \in [Images -> Frames \cup {None}]
  <2>. HIDE DEF s
  <2>. QED
    BY <1>1, <1>3, <1>4
<1>7. /\ fen = [r.fence EXCEPT ![f] = FALSE]
      /\ inflight = [r.images_in_flight EXCEPT ![image] = f]
      /\ r.scanout # None => up = [r.upload EXCEPT ![f] = s.scaled]
      /\ r.scanout = None => up = r.upload
  BY <1>3
<1>. HIDE DEF s, up, fen, inflight, next
<1>8. /\ Recorded(r, image) \in RendererRecord
      /\ Recorded(r, image).extent = s.extent /\ Recorded(r, image).scanout = s.scanout
      /\ Recorded(r, image).fence = fen /\ Recorded(r, image).images_in_flight = inflight
      /\ Recorded(r, image).upload = up /\ Recorded(r, image).scaled = s.scaled
      /\ Recorded(r, image).dirty = s.dirty
  BY <1>3, <1>4, <1>5, <1>6 DEF RendererRecord
<1>. QED
  BY <1>3, <1>7, <1>8 DEF fresh

LEMMA InFlightTyped ==
  ASSUME RendererTyped
  PROVE  \A k \in 1..Len(gpu) : gpu[k].frame \in Frames /\ gpu[k].image \in Images
<1>1. gpu \in Seq(Submissions)
  BY DEF RendererTyped
<1>2. ASSUME NEW k \in 1..Len(gpu)
      PROVE  gpu[k].frame \in Frames /\ gpu[k].image \in Images
  <2>1. gpu[k] \in Submissions
    BY <1>1, <1>2, ElementOfSeq
  <2>. QED
    BY <2>1 DEF Submissions
<1>. QED
  BY <1>2

\* A frame is recorded into resources that no submission in flight uses: their fence is
\* signalled, the fences of those in flight are not.
LEMMA SubmitKeeps ==
  ASSUME LaunchInv, RendererInv, RenderSubmit
  PROVE  RendererInv'
<1>. DEFINE image == ui.image
            f == renderer.current_frame
            new == Submission(renderer, image)
            n == Len(gpu)
<1>0. /\ RendererTyped /\ FencesInv /\ FramesIntact /\ ImagesExclusive
      /\ renderer \in RendererRecord /\ image \in Images /\ f \in Frames /\ gpu \in Seq(Submissions)
      /\ renderer.fence[f] /\ n \in Nat /\ ui \in UiRecord
  BY DEF RendererInv, RendererTyped, FencesInv, RenderSubmit, RendererRecord, LaunchInv, LaunchTyped
<1>1. /\ ImageIsFree(image) /\ renderer' = Recorded(renderer, image)
      /\ gpu' = Append(gpu, new) /\ window' = window /\ ui'.pc # "submit"
  <2>1. \E pc \in {FrameEnd, "recreate"} : ui' = [ui EXCEPT !.pc = pc, !.image = None]
    BY DEF RenderSubmit
  <2>2. FrameEnd # "submit"
    BY DEF FrameEnd
  <2>3. ui'.pc # "submit"
    BY <1>0, <2>1, <2>2 DEF UiRecord
  <2>. QED
    BY <2>3 DEF RenderSubmit, SubmitFrame
<1>2. /\ new \in Submissions /\ new.frame = f /\ new.image = image
      /\ new.copies = (renderer.scanout # None)
      /\ new.copies => new.content = renderer.scanout
      /\ new.size = renderer.extent
  BY <1>0 DEF Submission, Submissions, RendererRecord
<1>. HIDE DEF new
<1>3. /\ gpu' \in Seq(Submissions) /\ Len(gpu') = n + 1 /\ gpu'[n + 1] = new
      /\ \A k \in 1..n : gpu'[k] = gpu[k]
  BY <1>0, <1>1, <1>2, AppendProperties
<1>4. /\ renderer' \in RendererRecord
      /\ renderer'.extent = renderer.extent /\ renderer'.scanout = renderer.scanout
      /\ renderer'.fence = [renderer.fence EXCEPT ![f] = FALSE]
      /\ renderer'.images_in_flight = [renderer.images_in_flight EXCEPT ![image] = f]
      /\ renderer.scanout = None => /\ renderer'.scaled = renderer.scaled
                                    /\ renderer'.dirty = renderer.dirty
                                    /\ renderer'.upload = renderer.upload
      /\ renderer.scanout # None =>
           /\ renderer'.upload = [renderer.upload EXCEPT ![f] = renderer'.scaled]
           /\ renderer'.scaled
                = IF renderer.dirty \/ renderer.scaled = Blank
                  THEN [content |-> renderer.scanout, size |-> renderer.extent] ELSE renderer.scaled
  BY <1>0, <1>1, RecordedFields
<1>5. /\ renderer.fence \in [Frames -> BOOLEAN] /\ renderer.upload \in [Frames -> Scaled]
      /\ renderer.images_in_flight \in [Images -> Frames \cup {None}]
      /\ renderer.dirty \in BOOLEAN
  BY <1>0 DEF RendererRecord
<1>6. \A k \in 1..n : gpu[k].frame \in Frames /\ gpu[k].image \in Images
  BY <1>0, InFlightTyped
<1>7. \A k \in 1..n : gpu[k].frame # f /\ gpu[k].image # image
  <2>1. ASSUME NEW k \in 1..n
        PROVE  gpu[k].frame # f /\ gpu[k].image # image
    <3>1. /\ ~renderer.fence[gpu[k].frame]
          /\ renderer.images_in_flight[gpu[k].image] = gpu[k].frame
      BY <1>0, <2>1 DEF FencesInv
    <3>2. gpu[k].frame # None
      BY <1>6, <2>1, FramesTyped
    <3>. QED
      BY <1>0, <1>1, <3>1, <3>2 DEF ImageIsFree
  <2>. QED
    BY <2>1
<1>8. RendererTyped'
  BY <1>0, <1>1, <1>3, <1>4 DEF RendererTyped
<1>9. renderer.scanout # None => renderer'.scaled = [content |-> renderer.scanout, size |-> renderer.extent]
  BY <1>0, <1>4 DEF FencesInv
<1>. HIDE DEF image, f, n
<1>10. FencesInv'
  <2>1. ASSUME NEW k \in 1..n + 1
        PROVE  /\ ~renderer'.fence[gpu'[k].frame]
               /\ renderer'.images_in_flight[gpu'[k].image] = gpu'[k].frame
               /\ \A j \in 1..n + 1 : gpu'[j].frame = gpu'[k].frame => j = k
    <3>1. CASE k = n + 1
      <4>1. gpu'[k] = new /\ new.frame = f /\ new.image = image
        BY <1>2, <1>3, <3>1
      <4>2. ~renderer'.fence[f] /\ renderer'.images_in_flight[image] = f
        BY <1>0, <1>4, <1>5
      <4>3. ASSUME NEW j \in 1..n + 1, gpu'[j].frame = gpu'[k].frame
            PROVE  j = k
        <5>1. j \notin 1..n
          BY <1>3, <1>7, <4>1, <4>3
        <5>. QED
          BY <1>0, <3>1, <4>3, <5>1
      <4>. QED
        BY <4>1, <4>2, <4>3, Zenon
    <3>2. CASE k \in 1..n
      <4>1. /\ ~renderer.fence[gpu[k].frame]
            /\ renderer.images_in_flight[gpu[k].image] = gpu[k].frame
            /\ \A j \in 1..n : gpu[j].frame = gpu[k].frame => j = k
        BY <1>0, <3>2 DEF FencesInv, n
      <4>2. gpu'[k] = gpu[k] /\ gpu[k].frame # f /\ gpu[k].image # image
        BY <1>3, <1>7, <3>2
      <4>3. ASSUME NEW j \in 1..n + 1, gpu'[j].frame = gpu'[k].frame
            PROVE  j = k
        <5>1. j # n + 1
          BY <1>2, <1>3, <4>2, <4>3
        <5>2. j \in 1..n
          BY <1>0, <4>3, <5>1
        <5>. QED
          BY <1>3, <4>1, <4>2, <4>3, <5>2
      <4>4. ~renderer'.fence[gpu[k].frame]
        BY <1>4, <1>5, <1>6, <3>2, <4>1, <4>2
      <4>5. renderer'.images_in_flight[gpu[k].image] = renderer.images_in_flight[gpu[k].image]
        BY <1>4, <1>5, <1>6, <3>2, <4>2
      <4>6. \A j \in 1..n + 1 : gpu'[j].frame = gpu'[k].frame => j = k
        BY <4>3
      <4>7. /\ ~renderer'.fence[gpu'[k].frame]
            /\ renderer'.images_in_flight[gpu'[k].image] = gpu'[k].frame
        BY <4>1, <4>2, <4>4, <4>5, Zenon
      <4>. QED
        BY <4>6, <4>7, Zenon
    <3>. QED
      BY <1>0, <2>1, <3>1, <3>2
  <2>2. renderer'.scanout # None /\ ~renderer'.dirty /\ renderer'.scaled # Blank =>
          renderer'.scaled = [content |-> renderer'.scanout, size |-> renderer'.extent]
    BY <1>4, <1>9
  <2>. QED
    BY <1>1, <1>3, <2>1, <2>2 DEF FencesInv
<1>11. FramesIntact'
  <2>1. ASSUME NEW k \in 1..n + 1, gpu'[k].copies
        PROVE  renderer'.upload[gpu'[k].frame] = [content |-> gpu'[k].content, size |-> gpu'[k].size]
    <3>1. CASE k = n + 1
      BY <1>0, <1>2, <1>3, <1>4, <1>5, <1>9, <2>1, <3>1
    <3>2. CASE k \in 1..n
      <4>1. gpu'[k] = gpu[k] /\ gpu[k].frame # f /\ gpu[k].frame \in Frames
        BY <1>3, <1>6, <1>7, <3>2
      <4>2. renderer.upload[gpu[k].frame] = [content |-> gpu[k].content, size |-> gpu[k].size]
        BY <1>0, <2>1, <3>2, <4>1 DEF FramesIntact, n
      <4>3. renderer'.upload[gpu[k].frame] = renderer.upload[gpu[k].frame]
        BY <1>4, <1>5, <4>1
      <4>. QED
        BY <4>1, <4>2, <4>3
    <3>. QED
      BY <1>0, <2>1, <3>1, <3>2
  <2>. QED
    BY <1>3, <2>1 DEF FramesIntact
<1>12. ImagesExclusive'
  <2>1. ASSUME NEW j \in 1..n + 1, NEW k \in 1..n + 1, j < k
        PROVE  gpu'[j].image # gpu'[k].image
    <3>1. j \in 1..n
      BY <1>0, <2>1
    <3>2. CASE k = n + 1
      BY <1>2, <1>3, <1>7, <3>1, <3>2
    <3>3. CASE k \in 1..n
      BY <1>0, <1>3, <2>1, <3>1, <3>3 DEF ImagesExclusive, n
    <3>. QED
      BY <1>0, <3>2, <3>3
  <2>. QED
    BY <1>3, <2>1 DEF ImagesExclusive
<1>. QED
  BY <1>8, <1>10, <1>11, <1>12 DEF RendererInv

\* A finished submission leaves the queue and signals its frame's fence.
LEMMA FinishKeeps ==
  ASSUME RendererInv, Gpu
  PROVE  RendererInv'
<1>. DEFINE f == gpu[1].frame
            n == Len(gpu)
<1>0. /\ RendererTyped /\ FencesInv /\ FramesIntact /\ ImagesExclusive
      /\ renderer \in RendererRecord /\ gpu \in Seq(Submissions) /\ n \in Nat
  BY DEF RendererInv, RendererTyped
<1>1. /\ gpu # <<>> /\ gpu' = Tail(gpu) /\ window' = window /\ ui' = ui
      /\ renderer' = [renderer EXCEPT !.fence[Head(gpu).frame] = TRUE]
  BY DEF Gpu, GpuFinishes
<1>2. n # 0 /\ Head(gpu) = gpu[1]
  BY <1>0, <1>1, EmptySeq
<1>3. /\ gpu' \in Seq(Submissions) /\ Len(gpu') = n - 1
      /\ \A k \in 1..n - 1 : gpu'[k] = gpu[k + 1]
  BY <1>0, <1>1, <1>2, HeadTailProperties
<1>4. \A k \in 1..n : gpu[k].frame \in Frames /\ gpu[k].image \in Images
  BY <1>0, InFlightTyped
<1>5. f \in Frames /\ renderer' = [renderer EXCEPT !.fence[f] = TRUE]
  <2>. DEFINE oldest == Head(gpu).frame
  <2>1. renderer' = [renderer EXCEPT !.fence[oldest] = TRUE]
    BY <1>1
  <2>2. oldest = f
    BY <1>2
  <2>3. f \in Frames
    BY <1>0, <1>2, <1>4
  <2>. HIDE DEF oldest, f
  <2>. QED
    BY <2>1, <2>2, <2>3
<1>. HIDE DEF f
<1>6. /\ renderer' \in RendererRecord
      /\ renderer'.fence = [renderer.fence EXCEPT ![f] = TRUE]
      /\ renderer'.extent = renderer.extent /\ renderer'.scanout = renderer.scanout
      /\ renderer'.scaled = renderer.scaled /\ renderer'.dirty = renderer.dirty
      /\ renderer'.upload = renderer.upload /\ renderer'.current_frame = renderer.current_frame
      /\ renderer'.images_in_flight = renderer.images_in_flight
  BY <1>0, <1>5 DEF RendererRecord
<1>7. /\ renderer.fence \in [Frames -> BOOLEAN] /\ renderer.current_frame \in Frames
  BY <1>0 DEF RendererRecord
<1>8. RendererTyped'
  BY <1>0, <1>1, <1>3, <1>6 DEF RendererTyped
<1>. HIDE DEF n
<1>9. ASSUME NEW k \in 1..n - 1
      PROVE  k + 1 \in 1..n /\ gpu'[k] = gpu[k + 1] /\ gpu[k + 1].frame # f
  <2>1. k + 1 \in 1..n /\ 1 \in 1..n /\ k + 1 # 1
    BY <1>0, <1>2, <1>9
  <2>2. gpu[1].frame = gpu[k + 1].frame => 1 = k + 1
    BY <1>0, <2>1 DEF FencesInv, n
  <2>. QED
    BY <1>3, <1>9, <2>1, <2>2 DEF f
<1>10. FencesInv'
  <2>1. ASSUME NEW k \in 1..n - 1
        PROVE  /\ ~renderer'.fence[gpu'[k].frame]
               /\ renderer'.images_in_flight[gpu'[k].image] = gpu'[k].frame
               /\ \A j \in 1..n - 1 : gpu'[j].frame = gpu'[k].frame => j = k
    <3>1. k + 1 \in 1..n /\ gpu'[k] = gpu[k + 1] /\ gpu[k + 1].frame # f
      BY <1>9
    <3>2. /\ ~renderer.fence[gpu[k + 1].frame]
          /\ renderer.images_in_flight[gpu[k + 1].image] = gpu[k + 1].frame
          /\ \A j \in 1..n : gpu[j].frame = gpu[k + 1].frame => j = k + 1
      BY <1>0, <3>1 DEF FencesInv, n
    <3>3. ASSUME NEW j \in 1..n - 1, gpu'[j].frame = gpu'[k].frame
          PROVE  j = k
      <4>1. j + 1 \in 1..n /\ gpu'[j] = gpu[j + 1]
        BY <1>9, <3>3
      <4>2. j + 1 = k + 1
        BY <3>1, <3>2, <3>3, <4>1
      <4>. QED
        BY <1>0, <2>1, <3>3, <4>2
    <3>4. ~renderer'.fence[gpu[k + 1].frame]
      BY <1>4, <1>6, <1>7, <3>1, <3>2
    <3>. QED
      BY <1>6, <3>1, <3>2, <3>3, <3>4
  <2>2. ui.pc = "submit" => renderer'.fence[renderer'.current_frame]
    BY <1>0, <1>6, <1>7 DEF FencesInv
  <2>3. renderer'.scanout # None /\ ~renderer'.dirty /\ renderer'.scaled # Blank =>
          renderer'.scaled = [content |-> renderer'.scanout, size |-> renderer'.extent]
    BY <1>0, <1>6 DEF FencesInv
  <2>. QED
    BY <1>1, <1>3, <2>1, <2>2, <2>3 DEF FencesInv
<1>11. FramesIntact'
  <2>1. ASSUME NEW k \in 1..n - 1, gpu'[k].copies
        PROVE  renderer'.upload[gpu'[k].frame] = [content |-> gpu'[k].content, size |-> gpu'[k].size]
    <3>1. k + 1 \in 1..n /\ gpu'[k] = gpu[k + 1]
      BY <1>9, <2>1
    <3>. QED
      BY <1>0, <1>6, <2>1, <3>1 DEF FramesIntact, n
  <2>. QED
    BY <1>3, <2>1 DEF FramesIntact
<1>12. ImagesExclusive'
  <2>1. ASSUME NEW j \in 1..n - 1, NEW k \in 1..n - 1, j < k
        PROVE  gpu'[j].image # gpu'[k].image
    <3>1. j + 1 \in 1..n /\ gpu'[j] = gpu[j + 1] /\ k + 1 \in 1..n /\ gpu'[k] = gpu[k + 1]
      BY <1>9
    <3>2. j + 1 < k + 1
      BY <1>0, <2>1
    <3>. QED
      BY <1>0, <3>1, <3>2 DEF ImagesExclusive, n
  <2>. QED
    BY <1>3, <2>1 DEF ImagesExclusive
<1>. QED
  BY <1>8, <1>10, <1>11, <1>12 DEF RendererInv

\* A new swapchain starts with nothing in flight and a scan-out to scale again.
LEMMA RecreateKeeps ==
  ASSUME LaunchInv, RendererInv, RenderRecreate
  PROVE  RendererInv'
<1>0. /\ RendererTyped /\ FencesInv /\ renderer \in RendererRecord /\ ui \in UiRecord
  BY DEF LaunchInv, LaunchTyped, RendererInv, RendererTyped
<1>1. ui'.pc # "submit"
  <2>1. FrameEnd # "submit" /\ ui' = [ui EXCEPT !.pc = FrameEnd]
    BY DEF FrameEnd, RenderRecreate, Goto
  <2>. QED
    BY <1>0, <2>1 DEF UiRecord
<1>2. CASE UNCHANGED rendererVars
  BY <1>0, <1>1, <1>2, DeviceUntouched DEF rendererVars, RendererTyped
<1>3. CASE window # Hidden /\ RecreateSwapchain
  <2>. DEFINE blanks == [f \in Frames |-> Blank]
              idle == [i \in Images |-> None]
  <2>1. blanks \in [Frames -> Scaled] /\ idle \in [Images -> Frames \cup {None}]
    BY DEF Scaled, Scanout, Blank
  <2>2. /\ gpu = <<>> /\ gpu' = <<>> /\ window' = window /\ window \in Sizes
        /\ renderer' = [renderer EXCEPT !.extent = window, !.dirty = renderer.scanout # None,
                                        !.upload = blanks, !.images_in_flight = idle]
    BY <1>0, <1>3 DEF RecreateSwapchain, Recreated, RendererTyped
  <2>. HIDE DEF blanks, idle
  <2>3. /\ renderer' \in RendererRecord
        /\ renderer'.scanout = renderer.scanout /\ renderer'.dirty = (renderer.scanout # None)
    BY <1>0, <2>1, <2>2 DEF RendererRecord
  <2>4. gpu' \in Seq(Submissions) /\ 1..Len(gpu') = {}
    BY <2>2
  <2>5. RendererTyped'
    BY <1>1, <2>2, <2>3, <2>4 DEF RendererTyped
  <2>6. FencesInv'
    BY <1>1, <2>3, <2>4 DEF FencesInv
  <2>. QED
    BY <2>4, <2>5, <2>6 DEF RendererInv, FramesIntact, ImagesExclusive
<1>. QED
  BY <1>2, <1>3 DEF RenderRecreate

\* A new scan-out or clear colour changes what the next frame records, not what is in flight.
LEMMA ApplyKeepsFrames ==
  ASSUME LaunchInv, RendererInv, ApplyLatest
  PROVE  RendererInv'
<1>0. /\ RendererTyped /\ FencesInv /\ FramesIntact /\ ImagesExclusive
      /\ renderer \in RendererRecord /\ ui \in UiRecord
  BY DEF LaunchInv, LaunchTyped, RendererInv, RendererTyped
<1>. DEFINE r == Cleared(renderer)
<1>1. ui.clear \in Clear /\ ui.scanout \in Scanout
  BY <1>0 DEF UiRecord
<1>2. \E c \in Clear : r = [renderer EXCEPT !.clear = c]
  <2>1. renderer.clear \in Clear /\ renderer = [renderer EXCEPT !.clear = renderer.clear]
    BY <1>0 DEF RendererRecord
  <2>. QED
    BY <1>1, <2>1 DEF Cleared, set_guest_clear_color
<1>. HIDE DEF r
<1>3. /\ r \in RendererRecord /\ r.scanout = renderer.scanout /\ r.dirty = renderer.dirty
      /\ r.scaled = renderer.scaled /\ r.extent = renderer.extent /\ r.upload = renderer.upload
      /\ r.fence = renderer.fence /\ r.images_in_flight = renderer.images_in_flight
      /\ r.current_frame = renderer.current_frame
  BY <1>0, <1>2 DEF RendererRecord
<1>4. \/ renderer' = [r EXCEPT !.scanout = ui.scanout, !.dirty = TRUE]
      \/ renderer' = r
  BY DEF ApplyLatest, set_guest_scanout, r
<1>5. /\ renderer' \in RendererRecord
      /\ \/ renderer'.dirty
         \/ renderer'.dirty = renderer.dirty /\ renderer'.scanout = renderer.scanout
      /\ renderer'.scaled = renderer.scaled /\ renderer'.extent = renderer.extent
      /\ renderer'.upload = renderer.upload /\ renderer'.fence = renderer.fence
      /\ renderer'.images_in_flight = renderer.images_in_flight
  BY <1>1, <1>3, <1>4 DEF RendererRecord
<1>6. gpu' = gpu /\ window' = window /\ ui'.pc # "submit"
  BY <1>0 DEF ApplyLatest, UiRecord
<1>. QED
  BY <1>0, <1>5, <1>6 DEF RendererInv, RendererTyped, FencesInv, FramesIntact, ImagesExclusive

LEMMA RendererStep ==
  ASSUME LaunchInv, RendererInv, [Next]_vars
  PROVE  RendererInv'
<1>0. /\ RendererTyped /\ ui \in UiRecord /\ window \in Sizes \cup {Hidden}
  BY DEF LaunchInv, LaunchTyped, RendererInv, RendererTyped
<1>1. CASE RenderSubmit \/ RenderRecreate \/ ApplyLatest \/ Gpu
  BY <1>1, SubmitKeeps, RecreateKeeps, ApplyKeepsFrames, FinishKeeps
<1>2. CASE RenderAcquire
  <2>1. \/ \E i \in Images : ui' = [ui EXCEPT !.pc = "submit", !.image = i]
        \/ ui' = [ui EXCEPT !.pc = "recreate"]
    BY <1>2, ScenarioTyped DEF LaunchInv, RenderAcquire, Goto
  <2>2. ui'.pc = "submit" => ui'.image \in Images
    BY <1>0, <2>1 DEF UiRecord
  <2>3. /\ UNCHANGED <<renderer, gpu, window>> /\ renderer.fence[renderer.current_frame]
    BY <1>2 DEF RenderAcquire, AcquireFrame, FrameIsFree
  <2>. QED
    BY <1>0, <2>2, <2>3, DeviceUntouched
<1>3. CASE Resize
  <2>1. /\ UNCHANGED <<renderer, gpu, ui>> /\ window' \in Sizes \cup {Hidden}
    BY <1>3 DEF Resize
  <2>. QED
    BY <2>1, DeviceUntouched
<1>4. CASE Worker \/ ScanFinishes \/ FolderSelected \/ UNCHANGED vars
  <2>1. UNCHANGED <<renderer, gpu, ui, window>>
    BY <1>4 DEF Worker, WorkerLoads, WorkerRuns, WorkerClears, WorkerScansOut, WorkerQueues,
                WorkerFinishes, WorkerEnds, WorkerStep, ScanFinishes, FolderSelected, vars,
                rendererVars
  <2>. QED
    BY <1>0, <2>1, DeviceUntouched
<1>5. CASE \/ Poll \/ TakeFolders \/ TakeListing \/ StartLibraryScan \/ NoWidget \/ AddGameFolder
           \/ ChooseGame \/ LaunchGame \/ TakeCommands \/ FetchLatest \/ RenderNothing
           \/ RenderResized \/ Shutdown \/ JoinThreads
  <2>1. UNCHANGED <<renderer, gpu, window>>
    BY <1>5 DEF Poll, TakeFolders, TakeListing, StartLibraryScan, NoWidget, AddGameFolder,
                ChooseGame, LaunchGame, TakeCommands, FetchLatest, RenderNothing, RenderResized,
                Shutdown, JoinThreads, rendererVars
  <2>2. ui'.pc # "submit"
    BY <1>0, <1>5
    DEF Poll, TakeFolders, TakeListing, StartLibraryScan, NoWidget, AddGameFolder, ChooseGame,
        LaunchGame, TakeCommands, FetchLatest, RenderNothing, RenderResized, Shutdown,
        JoinThreads, Goto, FrameEnd, UiRecord
  <2>. QED
    BY <1>0, <2>1, <2>2, DeviceUntouched
<1>. QED
  BY <1>1, <1>2, <1>3, <1>4, <1>5 DEF Next, Ui

LEMMA RendererStarts ==
  ASSUME Init
  PROVE  RendererInv
<1>. DEFINE blanks == [f \in Frames |-> Blank]
            idle == [i \in Images |-> None]
            signalled == [f \in Frames |-> TRUE]
<1>1. /\ blanks \in [Frames -> Scaled] /\ idle \in [Images -> Frames \cup {None}]
      /\ signalled \in [Frames -> BOOLEAN] /\ Blank \in Scaled
  BY DEF Scaled, Scanout, Blank
<1>2. /\ window \in Sizes /\ gpu = <<>> /\ ui.pc = "poll"
      /\ renderer = [extent |-> window, scanout |-> None, dirty |-> FALSE, clear |-> None,
                     scaled |-> Blank, upload |-> blanks, fence |-> signalled,
                     images_in_flight |-> idle, current_frame |-> 0]
  BY DEF Init, RendererInit
<1>. HIDE DEF blanks, idle, signalled
<1>3. renderer \in RendererRecord /\ renderer.scanout = None
  BY <1>1, <1>2, FramesTyped DEF RendererRecord, Scanout, Clear
<1>4. gpu \in Seq(Submissions) /\ Len(gpu) = 0
  BY <1>2
<1>. QED
  BY <1>2, <1>3, <1>4 DEF RendererInv, RendererTyped, FencesInv, FramesIntact, ImagesExclusive

THEOREM RendererCorrect == Spec => []RendererInv
<1>1. Init => RendererInv
  BY RendererStarts
<1>2. LaunchInv /\ RendererInv /\ [Next]_vars => RendererInv'
  BY RendererStep
<1>. QED
  BY <1>1, <1>2, LaunchCorrect, PTL DEF Spec

\* Until the GPU has finished a frame, nothing overwrites the upload buffer it copies from,
\* for every number of frames in flight.
THEOREM UploadsStayIntact == Spec => []FramesIntact
<1>1. RendererInv => FramesIntact
  BY DEF RendererInv
<1>. QED
  BY <1>1, RendererCorrect, PTL

\* No two submissions in flight draw into the same image, whatever images the window system
\* hands out and however often the swapchain is replaced.
THEOREM ImagesNeverShared == Spec => []ImagesExclusive
<1>1. RendererInv => ImagesExclusive
  BY DEF RendererInv
<1>. QED
  BY <1>1, RendererCorrect, PTL
====
