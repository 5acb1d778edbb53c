--------------------------- MODULE VulkanRenderer ---------------------------
(***************************************************************************)
(* The frame loop of the Vulkan renderer (vulkan_renderer.cpp).  The host   *)
(* records a frame into the resources of current_frame_, submits it and     *)
(* goes on; the GPU executes submissions later, in order, and reads the     *)
(* scan-out from the frame's upload buffer only then.  Fences tell the host *)
(* when the frame's resources and the swapchain's images are free again.    *)
(***************************************************************************)
EXTENDS Integers, Sequences

CONSTANTS
  Images,           \* the swapchain's images
  FramesInFlight,   \* frames_in_flight, 2 in the code
  Sizes,            \* framebuffer sizes
  Hidden,           \* the size of a minimised window
  None              \* no scan-out, no clear colour, no fence

ASSUME VulkanRendererAssumption ==
  /\ FramesInFlight \in Nat \ {0}
  /\ Hidden \notin Sizes
  /\ None \notin Images \cup 0 .. (FramesInFlight - 1)

VARIABLES
  window,     \* the window's framebuffer size now
  renderer,   \* the host's record, below
  gpu,        \* the submissions the GPU has not finished
  displayed   \* what the newest finished submission presented

rendererVars == <<window, renderer, gpu, displayed>>

Frames == 0 .. (FramesInFlight - 1)
Blank  == [content |-> None, size |-> None]

\* A new renderer: all fences signalled, nothing in flight.
RendererInit ==
  /\ window \in Sizes
  /\ renderer = [extent |-> window, scanout |-> None, dirty |-> FALSE, clear |-> None,
                 scaled |-> Blank, upload |-> [f \in Frames |-> Blank],
                 fence |-> [f \in Frames |-> TRUE], images_in_flight |-> [i \in Images |-> None],
                 current_frame |-> 0]
  /\ gpu = << >>
  /\ displayed = None

set_guest_clear_color(r, colour) == [r EXCEPT !.clear = colour]
set_guest_scanout(r, scanout)    == [r EXCEPT !.scanout = scanout, !.dirty = TRUE]

\* ---- render_frame ------------------------------------------------------------
FrameIsFree == renderer.fence[renderer.current_frame]
ImageIsFree(image) ==
  LET f == renderer.images_in_flight[image] IN f # None => renderer.fence[f]

\* The scaled pixels are kept until guest_scanout_dirty_ or their number tells that they are
\* old.  All Sizes have the same number of pixels, so that here it never does.
Rescaled(r) ==
  IF r.dirty \/ r.scaled = Blank
  THEN [r EXCEPT !.scaled = [content |-> r.scanout, size |-> r.extent], !.dirty = FALSE]
  ELSE r
\* Record and submit a frame for an acquired image: a copy of the upload buffer when there is
\* a scan-out, a cleared render pass otherwise.
Submission(r, image) ==
  [frame |-> r.current_frame, image |-> image, copies |-> r.scanout # None,
   content |-> IF r.scanout # None THEN r.scanout ELSE r.clear, size |-> r.extent]
Recorded(r, image) ==
  LET s == IF r.scanout # None THEN Rescaled(r) ELSE r
      f == r.current_frame
  IN  [s EXCEPT !.upload[f] = IF r.scanout # None THEN s.scaled ELSE @,
                !.images_in_flight[image] = f, !.fence[f] = FALSE,
                !.current_frame = (@ + 1) % FramesInFlight]
\* Mutation: the frame is recorded while another submission still draws into the image.
SubmitToAnyImage(image) ==
  /\ renderer' = Recorded(renderer, image)
  /\ gpu' = Append(gpu, Submission(renderer, image))
  /\ UNCHANGED <<window, displayed>>
SubmitFrame(image) ==
  /\ ImageIsFree(image)
  /\ renderer' = Recorded(renderer, image)
  /\ gpu' = Append(gpu, Submission(renderer, image))
  /\ UNCHANGED <<window, displayed>>

\* Mutation: the fence is reset before an image is acquired, and stays so when there is none.
AcquireAfterReset ==
  FrameIsFree /\ renderer' = [renderer EXCEPT !.fence[renderer.current_frame] = FALSE]
\* The frame's fence is waited for and, only once an image is acquired, reset.
AcquireFrame == FrameIsFree /\ renderer' = renderer

\* ---- recreate_swapchain ----------------------------------------------------------
Recreated(r) ==
  [r EXCEPT !.extent = window, !.dirty = r.scanout # None, !.upload = [f \in Frames |-> Blank],
            !.images_in_flight = [i \in Images |-> None]]
\* Mutation: the swapchain is replaced under submissions in flight, without vkDeviceWaitIdle.
RecreateUnderway == renderer' = Recreated(renderer) /\ UNCHANGED <<window, gpu, displayed>>
\* Nothing may be in flight when the images, their fences and the upload buffers are replaced.
RecreateSwapchain ==
  /\ gpu = << >>
  /\ renderer' = Recreated(renderer)
  /\ UNCHANGED <<window, gpu, displayed>>

\* ---- The device and the window system ----------------------------------------------
\* The oldest submission finishes and signals its fence.
GpuFinishes ==
  /\ gpu # << >>
  /\ LET s == Head(gpu) IN
     /\ displayed' = IF s.copies THEN renderer.upload[s.frame].content ELSE s.content
     /\ renderer' = [renderer EXCEPT !.fence[s.frame] = TRUE]
  /\ gpu' = Tail(gpu)
  /\ UNCHANGED window

\* ---- Properties ---------------------------------------------------------------------
\* Until the GPU has finished a frame, the upload buffer it copies from holds the scan-out
\* the frame was recorded with, scaled to the frame's extent.
FramesIntact ==
  \A k \in 1..Len(gpu) :
    gpu[k].copies => renderer.upload[gpu[k].frame] = [content |-> gpu[k].content, size |-> gpu[k].size]
\* Two submissions in flight never draw into the same image.
ImagesExclusive ==
  \A j, k \in 1..Len(gpu) : j < k => gpu[j].image # gpu[k].image
=============================================================================
