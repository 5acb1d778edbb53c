------------------------------ MODULE Frontend ------------------------------
(***************************************************************************)
(* The frontend (frontend/main.cpp): the user-interface thread and its      *)
(* frame loop, the thread that scans the game folders, the thread that      *)
(* loads and runs a title, and the callback of the folder dialog, which SDL *)
(* may run on a thread of its own.  They share LibraryScan, WorkerResult    *)
(* and FolderSelection, each under its mutex; a step here is what one       *)
(* thread does under one lock, or between two.  The user-interface thread   *)
(* also drives the renderer.  worker.message and the text on the screen are *)
(* left out.                                                                *)
(***************************************************************************)
EXTENDS VulkanRenderer

CONSTANTS
  Folder,      \* game folders
  Failed,      \* what a scan that threw leaves of the listing
  Scenarios,   \* the bounds of a behaviour, one of the records below
  Sequence     \* values of guest_scanout_sequence

\* A scenario bounds what the user and the system do:
\*   vulkan, transfer    whether there is a renderer, and whether it can present scan-outs
\*   launches, dialogs   launches that start, folder dialogs opened
\*   chunks, outputs     calls of Emulator::run per launch, 5000 in the code, and what each
\*                       may do: [clear, batch, stops], of the set Output
\*   roots               the saved folders
\*   images              the images vkAcquireNextImageKHR returns
\*   disturbances        changes of the window's size and out-of-date swapchains

\* A run clears the colour buffer or not, draws nothing, draws, or also swaps the buffers, and
\* stops the title or uses up its instructions.
Output   == [clear : BOOLEAN, batch : {"none", "draws", "swap"}, stops : BOOLEAN]
NoOutput == [clear |-> FALSE, batch |-> "none", stops |-> FALSE]

ASSUME FrontendAssumption ==
  Scenarios \subseteq
    [vulkan : BOOLEAN, transfer : BOOLEAN, launches : Nat, dialogs : Nat, chunks : Nat,
     outputs : SUBSET Output, roots : SUBSET Folder, images : SUBSET Images,
     disturbances : Nat]

VARIABLES
  scenario,
  disturbances,
  ui,          \* the user-interface thread: pc, and the locals that live across locks
  done,        \* whether the frame loop was told to end
  folders, library_dirty, listing, saved,
  dialog,      \* [open, pending]: dialogs the user has open, and FolderSelection's paths
  scan,        \* LibraryScan and its thread: [thread, roots, running, result_ready, games]
  worker,      \* the launch thread: [pc, title, chunk, out]
  shared,      \* WorkerResult
  published    \* every command batch the launch threads published, in order

libraryVars == <<folders, library_dirty, listing, saved, dialog, scan>>
launchVars  == <<worker, shared, published>>
vars == <<scenario, disturbances, ui, done, libraryVars, launchVars, rendererVars>>

Init ==
  /\ RendererInit
  /\ scenario \in Scenarios
  /\ disturbances = 0
  /\ ui = [pc |-> "poll", commands |-> << >>, clear |-> None, clear_seq |-> 0, scanout |-> None,
           scanout_seq |-> 0, shown_clear |-> 0, shown_scanout |-> 0, image |-> None,
           consumed |-> << >>]
  /\ done = FALSE
  \* The saved folders have been read and their scan has been started.
  /\ folders = scenario.roots /\ saved = scenario.roots
  /\ scan = [thread |-> "scanning", roots |-> scenario.roots, running |-> TRUE,
             result_ready |-> FALSE, games |-> {}]
  /\ library_dirty = FALSE
  /\ listing = {}
  /\ dialog = [open |-> 0, opened |-> 0, pending |-> {}]
  /\ worker = [pc |-> "none", title |-> 0, chunk |-> 0, out |-> NoOutput]
  /\ shared = [running |-> FALSE, latest_clear |-> None, clear_seq |-> 0,
               latest_scanout |-> None, scanout_seq |-> 0, pending |-> << >>]
  /\ published = << >>

Goto(pc) == ui' = [ui EXCEPT !.pc = pc]

\* ---- The folder dialog's callback, and the library scanner ------------------------
FolderSelected ==
  /\ dialog.open > 0
  /\ \E f \in SUBSET Folder :
       dialog' = [dialog EXCEPT !.open = @ - 1, !.pending = @ \cup f]
  /\ UNCHANGED <<scenario, disturbances, ui, done, folders, library_dirty, listing, saved, scan,
                 launchVars, rendererVars>>
\* discover_games lists what the roots hold, or throws and leaves an empty list.
ScanFinishes ==
  /\ scan.thread = "scanning"
  /\ \E games \in {scan.roots, Failed} :
       scan' = [scan EXCEPT !.thread = "finished", !.running = FALSE, !.result_ready = TRUE,
                            !.games = games]
  /\ UNCHANGED <<scenario, disturbances, ui, done, folders, library_dirty, listing, saved, dialog,
                 launchVars, rendererVars>>

\* ---- The launch thread ---------------------------------------------------------------
WorkerStep(pc, next) ==
  /\ worker.pc = pc
  /\ worker' = [worker EXCEPT !.pc = next]
  /\ UNCHANGED <<scenario, disturbances, ui, done, libraryVars, rendererVars>>
\* Reading and loading the title, either of which may throw.
WorkerLoads ==
  /\ \E next \in {"run", "finish"} : WorkerStep("load", next)
  /\ UNCHANGED <<shared, published>>
\* Emulator::run for one chunk: what the guest drew, and whether it stopped.  It may throw.
WorkerRuns ==
  /\ worker.pc = "run"
  /\ \/ worker' = [worker EXCEPT !.pc = "finish"]
     \/ /\ worker.chunk < scenario.chunks
        /\ \E out \in scenario.outputs :
             worker' = [worker EXCEPT !.pc = "clear", !.chunk = @ + 1, !.out = out]
  /\ UNCHANGED <<scenario, disturbances, ui, done, libraryVars, rendererVars, shared, published>>
WorkerClears ==
  /\ WorkerStep("clear", IF worker.out.batch = "swap" THEN "scanout" ELSE "commands")
  /\ shared' = IF worker.out.clear
               THEN [shared EXCEPT !.latest_clear = [title |-> worker.title, chunk |-> worker.chunk], !.clear_seq = @ + 1]
               ELSE shared
  /\ UNCHANGED published
\* capture_tv_scanout may find nothing to show.
WorkerScansOut ==
  /\ WorkerStep("scanout", "commands")
  /\ \/ shared' = [shared EXCEPT !.latest_scanout =
                                   [title |-> worker.title, seq |-> shared.scanout_seq + 1, pixels |-> TRUE],
                                 !.scanout_seq = @ + 1]
     \/ UNCHANGED shared
  /\ UNCHANGED published
WorkerQueues ==
  /\ WorkerStep("commands", IF worker.out.stops THEN "finish" ELSE "run")
  /\ LET batch == IF worker.out.batch = "none" THEN << >> ELSE <<<<worker.title, worker.chunk>>>> IN
     /\ shared' = [shared EXCEPT !.pending = @ \o batch]
     /\ published' = published \o batch
\* The last message, then running; the thread itself ends a moment later.
WorkerFinishes ==
  /\ WorkerStep("finish", "exiting")
  /\ shared' = [shared EXCEPT !.running = FALSE]
  /\ UNCHANGED published
WorkerEnds == WorkerStep("exiting", "finished") /\ UNCHANGED <<shared, published>>
Worker == WorkerLoads \/ WorkerRuns \/ WorkerClears \/ WorkerScansOut \/ WorkerQueues
            \/ WorkerFinishes \/ WorkerEnds

\* ---- The frame loop ---------------------------------------------------------------------
Poll ==
  /\ ui.pc = "poll" /\ Goto("dialog")
  /\ \E close \in BOOLEAN : done' = (done \/ close)
  /\ UNCHANGED <<scenario, disturbances, libraryVars, launchVars, rendererVars>>
TakeFolders ==
  /\ ui.pc = "dialog" /\ Goto("library")
  /\ dialog' = [dialog EXCEPT !.pending = {}]
  /\ folders' = folders \cup dialog.pending
  /\ library_dirty' = (library_dirty \/ ~(dialog.pending \subseteq folders))
  /\ UNCHANGED <<scenario, disturbances, done, listing, saved, scan, launchVars, rendererVars>>
\* Mutation: a scan still running is taken for the one the new folders need.
TakeListingForgetfully ==
  /\ ui.pc = "library"
  /\ listing' = IF scan.result_ready THEN scan.games ELSE listing
  /\ scan' = [scan EXCEPT !.result_ready = FALSE]
  /\ library_dirty' = (library_dirty /\ ~scan.running)
  /\ Goto(IF library_dirty /\ ~scan.running THEN "rescan" ELSE "widgets")
  /\ UNCHANGED <<scenario, disturbances, done, folders, saved, dialog, launchVars, rendererVars>>
TakeListing ==
  /\ ui.pc = "library"
  /\ listing' = IF scan.result_ready THEN scan.games ELSE listing
  /\ scan' = [scan EXCEPT !.result_ready = FALSE]
  /\ Goto(IF library_dirty /\ ~scan.running THEN "rescan" ELSE "widgets")
  /\ UNCHANGED <<scenario, disturbances, done, folders, library_dirty, saved, dialog, launchVars,
                 rendererVars>>
\* start_library_scan joins the last scan's thread first.
StartLibraryScan ==
  /\ ui.pc = "rescan" /\ Goto("widgets")
  /\ scan.thread # "scanning"
  /\ scan' = [scan EXCEPT !.thread = "scanning", !.roots = folders, !.running = TRUE,
                          !.result_ready = FALSE]
  /\ library_dirty' = FALSE
  /\ saved' = folders
  /\ UNCHANGED <<scenario, disturbances, done, folders, listing, dialog, launchVars, rendererVars>>

NoWidget ==
  /\ ui.pc = "widgets" /\ Goto("commands")
  /\ UNCHANGED <<scenario, disturbances, done, libraryVars, launchVars, rendererVars>>
AddGameFolder ==
  /\ ui.pc = "widgets" /\ Goto("commands")
  /\ dialog.opened < scenario.dialogs
  /\ dialog' = [dialog EXCEPT !.open = @ + 1, !.opened = @ + 1]
  /\ UNCHANGED <<scenario, disturbances, done, folders, library_dirty, listing, saved, scan,
                 launchVars, rendererVars>>
\* A double click reaches launch_game while a title runs, and does nothing there.
ChooseGame ==
  /\ ui.pc = "widgets"
  /\ listing \notin {{}, Failed}
  /\ worker.title < scenario.launches
  /\ Goto(IF shared.running THEN "commands" ELSE "launch")
  /\ shared' = [shared EXCEPT !.running = TRUE]
  /\ UNCHANGED <<scenario, disturbances, done, libraryVars, worker, published, rendererVars>>
\* Mutation: the scan-out of the last title is announced again.
LaunchWithoutReset ==
  /\ ui.pc = "launch" /\ Goto("commands")
  /\ worker.pc \in {"none", "finished"}
  /\ shared' = [shared EXCEPT !.scanout_seq = @ + 1]
  /\ worker' = [pc |-> "load", title |-> worker.title + 1, chunk |-> 0, out |-> NoOutput]
  /\ UNCHANGED <<scenario, disturbances, done, libraryVars, published, rendererVars>>
\* The rest of launch_game: join the last thread, drop its scan-out, start.
LaunchGame ==
  /\ ui.pc = "launch" /\ Goto("commands")
  /\ worker.pc \in {"none", "finished"}
  /\ shared' = [shared EXCEPT !.latest_scanout = None, !.scanout_seq = @ + 1]
  /\ worker' = [pc |-> "load", title |-> worker.title + 1, chunk |-> 0, out |-> NoOutput]
  /\ UNCHANGED <<scenario, disturbances, done, libraryVars, published, rendererVars>>

FrameEnd == IF done THEN "shutdown" ELSE "poll"
\* Mutation: the commands are copied and left in the queue.
CopyCommands ==
  /\ ui.pc = "commands"
  /\ ui' = [ui EXCEPT !.pc = IF scenario.vulkan THEN "fetch" ELSE FrameEnd,
                      !.commands = IF scenario.vulkan THEN shared.pending ELSE << >>]
  /\ UNCHANGED <<scenario, disturbances, done, libraryVars, launchVars, rendererVars>>
TakeCommands ==
  /\ ui.pc = "commands"
  /\ ui' = [ui EXCEPT !.pc = IF scenario.vulkan THEN "fetch" ELSE FrameEnd,
                      !.commands = IF scenario.vulkan THEN shared.pending ELSE << >>]
  /\ shared' = [shared EXCEPT !.pending = << >>]
  /\ UNCHANGED <<scenario, disturbances, done, libraryVars, worker, published, rendererVars>>
\* std::move leaves latest_guest_scanout engaged, without its pixels.
FetchLatest ==
  /\ ui.pc = "fetch"
  /\ LET fresh == shared.scanout_seq # ui.shown_scanout /\ shared.latest_scanout # None IN
     /\ ui' = [ui EXCEPT !.pc = "apply", !.clear = shared.latest_clear, !.clear_seq = shared.clear_seq,
                         !.scanout = IF fresh THEN shared.latest_scanout ELSE None,
                         !.scanout_seq = shared.scanout_seq]
     /\ shared' = IF fresh THEN [shared EXCEPT !.latest_scanout.pixels = FALSE] ELSE shared
  /\ UNCHANGED <<scenario, disturbances, done, libraryVars, worker, published, rendererVars>>
Cleared(r) ==
  IF ui.clear # None /\ ui.clear_seq # ui.shown_clear THEN set_guest_clear_color(r, ui.clear) ELSE r
\* Mutation: the sequence is read again after the scan-out was fetched.
ApplyAndReread ==
  /\ ui.pc = "apply"
  /\ ui' = [ui EXCEPT !.pc = "render", !.consumed = @ \o ui.commands, !.commands = << >>,
                      !.shown_clear = ui.clear_seq, !.shown_scanout = shared.scanout_seq,
                      !.scanout = None]
  /\ renderer' = IF ui.scanout # None /\ scenario.transfer
                 THEN set_guest_scanout(Cleared(renderer), ui.scanout) ELSE Cleared(renderer)
  /\ UNCHANGED <<scenario, disturbances, done, libraryVars, launchVars, window, gpu, displayed>>
ApplyLatest ==
  /\ ui.pc = "apply"
  /\ ui' = [ui EXCEPT !.pc = "render", !.consumed = @ \o ui.commands, !.commands = << >>,
                      !.shown_clear = ui.clear_seq, !.shown_scanout = ui.scanout_seq,
                      !.scanout = None]
  /\ renderer' = IF ui.scanout # None /\ scenario.transfer
                 THEN set_guest_scanout(Cleared(renderer), ui.scanout) ELSE Cleared(renderer)
  /\ UNCHANGED <<scenario, disturbances, done, libraryVars, launchVars, window, gpu, displayed>>

\* ---- render_frame -----------------------------------------------------------------------
RenderNothing ==
  /\ ui.pc = "render" /\ window = Hidden /\ Goto(FrameEnd)
  /\ UNCHANGED <<scenario, disturbances, done, libraryVars, launchVars, rendererVars>>
RenderResized ==
  /\ ui.pc = "render" /\ window \notin {Hidden, renderer.extent} /\ Goto("recreate")
  /\ UNCHANGED <<scenario, disturbances, done, libraryVars, launchVars, rendererVars>>
RenderAcquire ==
  /\ ui.pc = "render" /\ window = renderer.extent
  /\ AcquireFrame
  /\ \/ \E i \in scenario.images : /\ ui' = [ui EXCEPT !.pc = "submit", !.image = i]
                          /\ UNCHANGED disturbances
     \/ /\ disturbances < scenario.disturbances
        /\ disturbances' = disturbances + 1 /\ Goto("recreate")
  /\ UNCHANGED <<scenario, done, libraryVars, launchVars, window, gpu, displayed>>
RenderSubmit ==
  /\ ui.pc = "submit" /\ SubmitFrame(ui.image)
  /\ \/ /\ ui' = [ui EXCEPT !.pc = FrameEnd, !.image = None] /\ UNCHANGED disturbances
     \/ /\ disturbances < scenario.disturbances
        /\ disturbances' = disturbances + 1
        /\ ui' = [ui EXCEPT !.pc = "recreate", !.image = None]
  /\ UNCHANGED <<scenario, done, libraryVars, launchVars>>
\* A minimised window keeps its swapchain, and so does one that should close.
RenderRecreate ==
  /\ ui.pc = "recreate" /\ Goto(FrameEnd)
  /\ \/ (window = Hidden \/ done) /\ UNCHANGED rendererVars
     \/ window # Hidden /\ RecreateSwapchain
  /\ UNCHANGED <<scenario, disturbances, done, libraryVars, launchVars>>

\* ---- The end -------------------------------------------------------------------------------
Shutdown ==
  /\ ui.pc = "shutdown" /\ Goto("join") /\ saved' = folders
  /\ UNCHANGED <<scenario, disturbances, done, folders, library_dirty, listing, dialog, scan,
                 launchVars, rendererVars>>
JoinThreads ==
  /\ ui.pc = "join" /\ Goto("exited")
  /\ scan.thread # "scanning" /\ worker.pc \in {"none", "finished"}
  /\ UNCHANGED <<scenario, disturbances, done, libraryVars, launchVars, rendererVars>>

Ui == \/ Poll \/ TakeFolders \/ TakeListing \/ StartLibraryScan
      \/ NoWidget \/ AddGameFolder \/ ChooseGame \/ LaunchGame
      \/ TakeCommands \/ FetchLatest \/ ApplyLatest
      \/ RenderNothing \/ RenderResized \/ RenderAcquire \/ RenderSubmit \/ RenderRecreate
      \/ Shutdown \/ JoinThreads

Gpu == GpuFinishes /\ UNCHANGED <<scenario, disturbances, ui, done, libraryVars, launchVars>>
\* The window system changes the size of the window whenever it likes.
Resize ==
  /\ disturbances < scenario.disturbances /\ disturbances' = disturbances + 1
  /\ \E size \in Sizes \cup {Hidden} : size # window /\ window' = size
  /\ UNCHANGED <<scenario, ui, done, libraryVars, launchVars, renderer, gpu, displayed>>

Next == Ui \/ Worker \/ ScanFinishes \/ FolderSelected \/ Gpu \/ Resize

\* The operating system runs every thread that can go on, and the GPU executes what was
\* submitted.  Nothing makes the user answer a dialog, close the window or leave its size alone.
Fairness == WF_vars(Ui) /\ WF_vars(Worker) /\ WF_vars(ScanFinishes) /\ WF_vars(Gpu)
Spec == Init /\ [][Next]_vars /\ Fairness

\* ---- Properties ----------------------------------------------------------------------------
\* A scan-out that is about to be given to the renderer still has its pixels and belongs to the
\* title that runs: launch_game's reset and the sequence numbers keep the moved-from optional and
\* the last title's picture out (main.cpp:970, 1511).
PresentedIsCurrent ==
  ui.scanout # None => ui.scanout.pixels /\ ui.scanout.title = worker.title
\* No command batch is lost, repeated or overtaken between the launch threads that publish and
\* the frame loop that swaps the queue out, whatever locks are taken in between.
CommandsInOrder ==
  scenario.vulkan => published = ui.consumed \o ui.commands \o shared.pending

\* Every scan-out a title publishes reaches the screen, or a newer one does: a frame loop that
\* misses a sequence number would show the last picture for ever.  It is excused when the user
\* launches another title, closes the frontend, or leaves the window minimised.
Seen(k) == displayed # None /\ "seq" \in DOMAIN displayed /\ displayed.seq >= k
Published(k) ==
  /\ scenario.vulkan /\ scenario.transfer
  /\ shared.latest_scanout # None /\ shared.latest_scanout.pixels /\ shared.latest_scanout.seq = k
ScanoutReachesScreen ==
  \A k \in Sequence : Published(k) ~> (Seen(k) \/ done \/ ui.pc = "launch" \/ [](window = Hidden))
\* A folder the user added is scanned and listed in the end, unless the scan of it fails: also
\* a folder that arrives while a scan of the others is running.
ScanFailed(f) ==
  listing = Failed /\ f \in scan.roots /\ scan.thread = "finished" /\ ~scan.result_ready
FoldersListed ==
  \A f \in Folder :
    (f \in folders) ~> (ScanFailed(f) \/ (listing # Failed /\ f \in listing) \/ done)
\* Once it was told to end, the frontend ends: no fence that nobody signals, no thread that
\* never finishes keeps the frame loop or the joins waiting.
ShutdownCompletes == done ~> (ui.pc = "exited")
=============================================================================
