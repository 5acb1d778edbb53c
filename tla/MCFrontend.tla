----------------------------- MODULE MCFrontend -----------------------------
(* Instances of Frontend for TLC. *)
EXTENDS Frontend

CONSTANTS i1, i2, f1, f2

Swap  == [clear |-> FALSE, batch |-> "swap", stops |-> FALSE]
Idle  == NoOutput
Draws == [clear |-> TRUE, batch |-> "draws", stops |-> FALSE]
Last  == [clear |-> FALSE, batch |-> "swap", stops |-> TRUE]

\* Two folder dialogs against the scanner, without a renderer.
Library == [vulkan |-> FALSE, transfer |-> FALSE, launches |-> 0, dialogs |-> 2, chunks |-> 0,
            outputs |-> {}, roots |-> {}, images |-> {i1}, disturbances |-> 0]
\* One launch of two chunks, each ending with a buffer swap.
Play == [Library EXCEPT !.vulkan = TRUE, !.transfer = TRUE, !.launches = 1, !.dialogs = 0,
                        !.chunks = 2, !.outputs = {Swap}, !.roots = {f1}]
Relaunch == [Play EXCEPT !.launches = 2, !.chunks = 1, !.outputs = {Last}]
\* One launch while the window changes, and one with frames for different images.
Resized  == [Play EXCEPT !.chunks = 1, !.outputs = {Last}, !.disturbances = 2]
Buffered == [Play EXCEPT !.chunks = 1, !.outputs = {Last}, !.images = {i1, i2}]
\* What a title draws when nothing can present a scan-out, or anything at all.
Drawn    == [Play EXCEPT !.transfer = FALSE, !.chunks = 1, !.outputs = {Idle, Draws}]
Headless == [Play EXCEPT !.vulkan = FALSE, !.transfer = FALSE, !.outputs = {Last}]
MCScenarios == {Library, Play, Relaunch, Resized, Buffered, Drawn, Headless}
=============================================================================
