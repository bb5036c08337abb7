# TLA+ models of Topaz

Topaz is a graphics engine with two interchangeable renderers, Vulkan and
OpenGL, behind one API (`src/src/gl/api`). This directory models the parts of
it whose correctness depends on the order in which things happen. The Vulkan
renderer comes first: the host, the device queue and the presentation engine
run concurrently, and the code's own fences, semaphores and tables are all
that keeps them apart.

## Parts of the system

| Part | Source | Module |
|------|--------|--------|
| Frame slots, acquire, submit, present | `gl/impl/backend/vk/frame_admin.cpp`, `swapchain.cpp` | `FrameAdmin` |
| Fences, semaphores, queue, submission | `fence.cpp`, `semaphore.cpp`, `submit.cpp`, `present.cpp` | `VulkanQueue` |
| Vulkan renderer: commands, draw lists, clear colour, resizing | `gl/impl/frontend/vk/renderer.cpp`, `device.cpp` | `RendererVulkan` |
| Buffer layout of inputs, resources, their handles and bindings | `renderer.cpp` (both frontends), `gl/input.cpp` | `RendererSetup` |
| Construction step by step: staging copies, texture layouts, descriptor sets | `renderer.cpp`, `command.cpp`, `image.cpp`, `descriptor.cpp`, `gl/resource.cpp` | `Upload`, `UploadSetup` |
| OpenGL renderer and buffers | `gl/impl/frontend/ogl`, `gl/impl/backend/ogl` | `RendererOGL` |
| Choice of device, queue, surface format, present mode, extent | `gl/impl/backend/vk/hardware`, `swapchain.cpp`, `frontend/vk/device.cpp` | `Selection` |
| Render passes and attachments | `render_pass.cpp` (both levels), `attachment.cpp` | `RenderPass` |
| Library life cycle | `core/tz.cpp`, `tz_vulkan.cpp`, `setup`, `tz_opengl.cpp` | `Library` |
| Device, window, resize callbacks, several renderers | `frontend/vk/device.cpp`, `core/window.cpp`, `core/window_functionality.cpp` | `DeviceVulkan` |

`PROJECT.json` has the full inventory, with the hazards of each part at the
line where they bite.

The parts interact as follows. An application calls `RendererVulkan::render`.
The renderer may first wait for, reset and re-record its command buffers, then
calls `FrameAdmin::render_frame`, which waits for the fence of the current
slot, acquires an image, waits for the fence that guards the image, submits the
image's command buffer and presents the image. The device completes
submissions in order and signals their fences and semaphores; the presentation
engine shows images and gives them back. A window event makes the device
object replace the swapchain and call the renderers back. Before any of this
`tz::initialise` creates window, instance and surface, a device chooses what to
run on, and the constructor of a renderer moves its data to the device.

## Modules

**VulkanQueue** holds the Vulkan objects: `fence`, the `queue` of pending
submissions, the two semaphores of each slot (`available`, `finished`), and the
presentation engine (`granted`, `held`, `presents`, `shown`). The host side is
translated from the wrappers in `gl/impl/backend/vk`; `Fence::signal`, which
*resets* the fence, is part of `Submit`, since every submission is preceded by
it. The device side (`Execute`, `Display`, `Release`) is external: it does what
the Vulkan specification allows, and no more than that is assumed. A fence
signal covers all earlier submissions, so the queue is a FIFO. Signalling a
binary semaphore twice loses a signal. `Recreate` replaces the swapchain. An idle
device covers neither acquires nor presents, so a semaphore may stay signalled for
an image or a present that is gone, and nothing resets it: two history variables,
`staleAvailable` and `staleFinished`, name the slots this happened to.

**FrameAdmin** is one call of `render_frame` or `render_frame_headless` cut at
the points where it blocks or where the device can overtake it (`pc`). Its
variables have the names of the class's members. `image_index_at_frame` has one
entry per slot but is indexed by image, as in the code; an entry past its end is
not stored, and reading one may return anything. A failing acquire follows the
release build: `tz_error` does nothing and `acquisition.index.value()` throws.
`VK_SUBOPTIMAL_KHR` counts as a failure there, but hands out an image and will
signal the semaphore: the image is never presented (`Leaked`), and the slot's
semaphore is out of step from then on.

**FramePipeline** is what a frame admin promises: at most `Depth` frames in
flight, none twice, leaving in order, and each of them leaving. FrameAdmin
implements it with the command buffers in `queue` as the frames in flight.

**RendererVulkan** extends FrameAdmin with the renderer: what is recorded in
each command buffer (`cmds`), the draw cache, the two indirect buffers, and the
clear colour. `op` is the point a renderer call is at. A recorded command
buffer is abstracted to the handles it draws, its clear colour, and whether the
indirect buffers it names still exist; the vertex offsets of a draw command are
a function of the handle. The initial state is the one the constructor leaves.
Acquires have all the answers they have in FrameAdmin, and a resize leaves the frame
admin with its semaphores as they are (`ReplaceSwapchain`).
It implements FramePipeline too, with the frames in the queue as the frames in
flight: the copies of draw lists share the queue and are none of them.

**RendererSetup** goes from a builder to a renderer, for either frontend
(`frontend`, chosen initially). `AddInput` and `AddResource` are the builder's; `Construct` stores
and binds the resources and lays the inputs out in the shared vertex and index
buffers; `EditInput` writes through `get_vertex_bytes_dynamic`. A buffer is a
sequence of elements, each known by its input, its position and the edit it
belongs to. The frontends differ in two ways: OpenGL writes the dynamic buffers
as a whole before the inputs copy their data to their regions, and Vulkan counts
the offset of an index region in bytes. `First` is the offset that the draw
command of an input has; `DrawsOwnVertices` and `DrawsOwnIndices` say that the two
computations, made in different functions, meet.

**RendererOGL** has the OpenGL renderers as objects that are constructed, moved
and destroyed, and the context they share. The members are in two groups, `core`
and `rest`, according to whether `operator=` swaps them. `asked` is what the user of an
object asked for, and goes along with a move; `render()` changes nothing, so
`Render` is an operator: what it would draw now. What
OpenGL does with a write or a draw past the end of a buffer (an error, and no
effect) is external. A member that is never initialised takes any value. What a
moved renderer draws is not modelled faithfully, nor claimed: it may dereference an
empty optional.

**Upload** extends RendererSetup with what happens inside the constructor.
`Begin` lays everything out and maps dynamic buffers; then each copy in `jobs`
is recorded into the one scratch command buffer from a staging buffer
(`Record`), submitted with the fence (`Submit`) and waited for (`WaitCopy`, at
whose end the staging buffer is destroyed), while the device executes when it
likes (`Execute`, external). `built` becomes true with the last wait. The order
of the copies is the code's: static vertices and indices, the two indirect
buffers, static resource buffers, textures. A texture goes through two layout
transitions; the second one starts from `Undefined`, because
`transition_image_layout` reads a layout that nothing updates, and the device
may then keep or discard the contents. **UploadSetup** states that Upload
implements RendererSetup, in which construction is one step: until `built` there
is no renderer to see.

**Library** has one life of the library. Its steps create GLFW with the window, the
instance with its debug messenger, and the surface, and destroy the surface, the
messenger with the instance, the window, and GLFW. **Selection** and
**RenderPass** are pure operators: the filters and selectors, and the path from a
pass type to the attachments of a render pass. **DeviceVulkan** puts the three
together. A machine is what the driver reports. The user changes the window's
size at any time (`SizeChange`); the application polls (`Update`), which
dispatches events to the callbacks of the window; the callback of a device waits
for events while the window has no area, which dispatches more events, so
callbacks nest and `calls` is the stack of them. A renderer is abstracted to what
depends on the swapchain. The program may run into undefined behaviour: a
callback of a destroyed device or renderer, or more views than descriptor sets.
`undefined` records it, and nothing is claimed afterwards.

**Loops** has the loops that several of these modules share: lists put end to end,
and the elements of a list that are wanted.

**FrameAdminProofs**, **RendererVulkanProofs**, **RendererSetupProofs**,
**UploadProofs**, **UploadSetupProofs**, **RendererOGLProofs** and
**DeviceVulkanProofs** have the theorems, and **LoopsProofs** lemmas about
sequences that they share.

`MCFrameAdmin`, `MCRendererVulkan`, `MCRendererSetup`, `MCUpload`, `MCRendererOGL` and
`MCDeviceVulkan` give TLC constants. Operators introduced
as "Mutant of" are not part of the model: each is a plausible mistake in one
definition, and shows that some property would notice it.

## Runs

| Run | Instance | What it shows |
|-----|----------|---------------|
| `frame_admin_windowed` | 3 slots, 3 images, every answer of an acquire | `wait_for` means a command buffer may be reset; semaphores of both kinds are free when they are signalled; the device never draws on the image on the screen; calls return while two images are left |
| `frame_admin_headless` | 5 slots, no window | FrameAdmin implements FramePipeline; here only fences bound the frames in flight |
| `frame_admin_three_images` | 2 slots, 3 images | *Violation*: `wait_for` reads past its table |
| `renderer_windowed` | 2 slots, 2 images, 1 static and 1 dynamic input, 2 draw lists, 2 colours, resizes at any time, every answer of an acquire | Nothing the device uses is touched (but by the regeneration function), frames show the last list and colour, every call returns or throws while two images are left; what FrameAdmin promises of `wait_for`, the render-finished semaphores, the screen and the pipeline still holds with copies in its queue and swapchains replaced under it |
| `renderer_headless_reset` | 1 slot, 1 image, no window, as the code has it | *Violation*: the running command buffer is reset |
| `renderer_first_list` | as `renderer_windowed`, 4 draw lists, no failing acquire | *Violation*: before anything is recorded again, frames are empty |
| `setup` | up to 3 inputs and 3 resources of either access, both frontends, 3 views, copies run by the device at any moment | Draws read their own vertices with the latest edits, and their own indices unless a Vulkan renderer has two dynamic inputs; every resource is bound once, where the layout has its type; handles are positions and bindings if buffers are added first; copies are undisturbed, arrive, and fit the descriptor pool; the constructor returns and implements RendererSetup |
| `setup_index_regions` | the same | *Violation* (Vulkan): indices of the second dynamic input are copied past the buffer |
| `setup_handles` | the same | *Violation* (both frontends): with a buffer added after a texture, handles name the wrong resource |
| `ogl_objects` | 2 objects, 2 constructions, lists of 0 to 4 draws | No frame shows an old list; the context is as the undisturbed renderer asked; nothing has two owners, whatever is moved and destroyed |
| `ogl_longer_list` | 1 object | *Violation*: a list longer than the indirect buffer draws nothing |
| `device_life` | 3 machines, 3 window sizes, 3 changes of size, 2 devices, 2 renderers, all application types, both backends | Nothing outlives what it was created from, terminate leaves nothing behind; renderers follow the swapchain and it follows the window, however callbacks nest; framebuffers match the pass; device and queue suit, where the queues that draw also present, and format and mode are the best on offer; `update` returns |

Some properties of the OpenGL renderer say less than the API's documentation
does, because more does not hold: a renderer that was moved draws nothing or what
the object it replaced was drawing, since `operator=` leaves the draw lists behind;
a renderer is drawn in the culling, depth test and clear colour of whichever
renderer was constructed or coloured last, since these are the context's; a builder
that was given no culling strategy has an indeterminate one; and both frontends
draw the static inputs of a list before the dynamic ones. `DrawsLatestOrNothing`
and `StateAsAsked` leave these cases out by name; drop the condition `~moved`,
`undisturbed` or `# Unset` and TLC has a counterexample within a few steps. Likewise `PendingUntouched` leaves out the
regeneration function of the Vulkan renderer, which rebuilds command buffers that
may be running, and does so for the swapchain that is out of date.

A suboptimal acquire throws after it was handed an image, and a resize forgets
presents that the engine has not waited for. The semaphore of such a slot is then
a frame ahead or behind for good, a later frame of the slot may draw on the image
on the screen, and so `AcquireSemaphoreFree`, `FinishSemaphoreFree` and
`NeverDrawsOnScreen` except these slots (`staleAvailable`, `staleFinished`). They
show that slots which are in step stay so. `CallReturns` and `RendererCallReturns`
except the case that suboptimal acquires have left at most one image: that one
stays on the screen until another is presented, and the acquire that waits for it
has no timeout.

In `device_life`, `FramebuffersMatchPass` leaves out passes with a depth
attachment only, whose framebuffers have a colour view that the pass lacks.
`ChoosesSuitably` asks for a queue that draws, copies and, with a window, presents,
as the comment in the constructor, the message of its assertion and the assertion
in the swapchain's constructor do, but only on machines where every queue that
draws and copies also presents (`DrawersPresent`): the code never asks for Present,
and takes the last queue that draws, on the machine `MixedDevice` the one that
cannot present. All these properties fail without their condition, on the
instances of the runs. None of these cases has a run of its own.

The violations are findings; `PROJECT.json` quotes the line each contradicts.

**Bounds.** Slots and images are the only unbounded data. Three of each is the
least with which an image can come back out of slot order while two other
frames are in flight; four of each (about 250,000 states) shows nothing new.
`renderer_windowed` has the two slots the renderer uses. Its two draw lists are the
empty one, which leaves both indirect buffers unused, and the initial one, so that
the cache is hit, missed and hit again; with lists of only static or only dynamic
draws besides (3.2 million states, too long for a routine run) the same properties
hold.

Three inputs are the least with one of an access between two of the other, and
three resources likewise; input sizes differ so that offsets are not mistaken for
counts. A renderer that is set up stays as it is but for edits, and a builder that
is full can only be built, so the `setup` runs allow deadlock when there is no dynamic
input to edit. For OpenGL, the static draws of a list are more and fewer than
the buffer that earlier lists leave can hold, the dynamic ones come and go, and two
objects are the least that can move to, disturb and outlive each other. The
objects are interchangeable, so the run is reduced by their symmetry.

With no more images than slots, an image comes back only once its last
submission has run, and the fence wait of a slot is redundant for command
buffers; what the fences are for shows in `frame_admin_headless`, and in the
semaphores. `FinishSemaphoreFree`, on the other hand, holds only with no more
images than slots: no fence covers a present, and what keeps a slot's
`render_finish` semaphore from being signalled twice is that all images would
have to be presented before the slot comes round.

Three views with up to three resources are the least with which the pool's
capacity and its use could be mistaken for each other in either direction. In `device_life`
three changes of size are the least for a minimised window that is restored and
changed once more while a callback waits, and two pending events for a newer one
to be dispatched inside the wait. One machine offers several devices, queues and
formats of which only the last will do; the other nothing that is preferred, a
surface with bounds, and a driver that makes more images than asked for; the third a
queue that draws but does not present.

**Fairness.** A call that has begun proceeds (it is one thread, and its blocking
waits have no timeout); the device, and the engine for each semaphore, do not
stall. An acquire that can hand out an image does, or fails, but it is not counted
on to fail: the errors (`AcquireFails`) are possible and not fair, so an acquire
without an image blocks. The application need not call anything, nor catch an exception. A
constructor that has begun goes on. In `device_life` a call that waits for an
event gets one (`Wake`): `glfwWaitEvents` returns for any event, and a user who
restores a window moves the mouse. The loop of the resize callback reads the size
before it waits, so without one more event it would not notice the restored
window. `WF(Wake)` is the assumption that this further event comes; `UpdateReturns`
fails without it.
Liveness is checked with TLC only.

## Proofs

A theorem holds for every value of the constants that the named assumptions
allow: slots, images, inputs, resources, views and so on in any number. Each
inductive invariant was checked with TLC before it was proved.

**Frame slots** (`FrameAdminProofs`). Assumed: slots and images are positive
numbers, `Headless` is Boolean and, without a window, every slot has an image.

* `TypeCorrect`: the variables keep their types.
* `SubmissionSafe`: `[]SubmitsFreeBuffer`, with or without a window and whatever
  acquires answer.
* `WaitForSafe`: `[]WaitForMeansFree`, with a window and no more images than
  slots. `frame_admin_three_images` and `renderer_headless_reset` show that both
  assumptions are needed.
* `AcquireSafe`: `[]AcquireSemaphoreFree`, with a window.
* `RefinesPipeline`: the safety part of `ImplementsPipeline`.

`SubmitsFreeBuffer` is not inductive: that the fence `images_in_flight` names is
signalled says nothing about the command buffer unless the table names the slot
of *every* pending submission. `IndInv` adds this (`TableInv`), that no two
pending submissions share a slot (`SlotInv`), that a signalled fence has no
pending submission (`FenceInv`), and what a call has already waited for
(`CallInv`). The interesting steps are the submission, which relies on all four,
and the completion of a submission, which needs `SlotInv` to signal a fence.
`AcquireSafe` counts signals: a semaphore of a slot in step is signalled, or will
be, only for the call in progress or for a pending submission that waits for it
(`SemaphoreInv`, over the slots not in `staleAvailable`). In `RefinesPipeline` the
bound on the frames in flight is a pigeonhole: pending submissions have different
slots.

**Presentation** (`FrameAdminProofs`), with a window and no more images than slots.

* `FinishSafe`: `[]FinishSemaphoreFree`.
* `ScreenSafe`: `[]NeverDrawsOnScreen`.

No fence covers a present, so the argument is about images. Those that wait to be
shown are different and not with the application (`HeldInv`), hence fewer than
the images; their slots are the last ones, backwards from `frame_counter`
(`SlotsInv`); with no more images than slots they do not reach round to the slot
of the call. `PresentedInv` ties a pending submission and a signalled semaphore to
one waiting present, for slots not in `staleFinished`. `ScreenInv` adds which image a
slot's signal stands for, for slots in neither set (`InStep`). No invariant of a slot
in step needs anything of one that is not.

**Vulkan renderer** (`RendererVulkanProofs`), for any inputs, draw lists and
colours. Its specification is not FrameAdmin's: copies enter the same queue,
swapchains are replaced between frames, so nothing above carries over by itself.
With or without a window, for any number of images and slots:

* `SubmissionsDistinct`: `[]SubmittedOnce`.
* `RendererFramesSafe`: `[](SubmitsFreeBuffer /\ AcquireSemaphoreFree)`.
* `RendererRefinesPipeline`: the safety part of `RendererImplementsPipeline`.
* `RendererTypeCorrect`: `[]RendererTypeOK`.
* `DrawsLatest`: `[]RendersLatestOnceRecorded`.

With a window and no more images than slots:

* `CommandsSafe`: `PendingUntouched`.
* `RendererWaitForSafe`: `[]WaitForMeansFree`.
* `RendererFinishSafe`: `[]FinishSemaphoreFree`.
* `RendererScreenSafe`: `[]NeverDrawsOnScreen`.

A copy does not satisfy `IndInv`, which is about slots. `SharedInv` therefore has
`IndInv` except while a copy is waited for, and then only that no two submissions
share a slot or fence, a signalled fence has none, and all of them are frames in
the table but for the copy, which is the youngest (`CopyInv`). This is enough to have
`IndInv` back when the wait ends, since the frame admin is at rest meanwhile.
`SemaphoreInv` is kept as above: a copy takes no semaphore, and when the swapchain
is replaced the device is idle, so that a slot in step has no signal under way. In `RendererRefinesPipeline` the frames in
flight are the queue without its copy: submitting and executing a copy is a
stutter, anything else a step of the frame admin.

`ClearInv` needs the window and the images: each round of
`clear_rendering_commands` leaves one more view that is not pending, and after the
last round the queue is empty (`NonePending`). A copy is then alone in the queue
until its fence is signalled. `ShownInv` carries the invariants of the presentation
through copies, which signal no semaphore, and through a replaced swapchain, after
which nothing is acquired, shown or waiting to be, and a slot whose present was not
waited for is out of step.

`DrawsLatest` is about what is recorded, so it needs nothing of fences and slots.
`ListInv` follows a new list through `record_draw_list`: a buffer the call has
passed has the new list, at the end the cache does too, and from then on a cache
hit leaves everything up to date.

**Setting up a renderer** (`RendererSetupProofs`), for either frontend and inputs
with at least one index each (`SizesAssumption`; a draw of an input without indices
reads nothing, and where no static input has any `setup_buffers` makes no static
buffers). `MaxInputs` and `MaxResources`
only bound what TLC explores.

* `BindingsCorrect`: `[]BindingsMatchLayout`, in whatever order resources are added.
* `HandlesCorrect`: `[]HandlesInOrder`. `setup_handles` shows why its premise, that
  buffers are added before textures, is needed.
* `VerticesCorrect`: `[]DrawsOwnVertices`.
* `IndicesCorrect`: `[]DrawsOwnIndicesElsewhere`. `setup_index_regions` shows why
  Vulkan renderers with two dynamic inputs are left out.
* `SetupTypeCorrect`: `[]SetupTypeOK`.

The first two follow from `ResourceInv`: the builder's two lists divide up what
was added (`Division`), a handle is the position of its resource (`HandlesCount`),
the lists end to end are in the order of adding if buffers came first (`InOrder`),
and a renderer has what its builder had (`Transferred`). The interesting step is
adding a buffer: if buffers still come first afterwards there is no texture yet,
and `Division` then makes the list of textures empty.

The layout follows from `LayoutInv`, in `SetupInv`: every buffer of a renderer
holds each of its inputs' elements, after their last edit, at the place where the
data of the earlier inputs ends (`Laid`, with `Holds` for one buffer). The offset
that a draw command counts up is the same place (`FirstIsStart`); the places of
different inputs do not overlap (`PlacesApart`) and are within the buffer
(`PlacesWithin`); copying the inputs to their regions puts each in its place
(`CopiedHolds`), and an edit changes one input where it is (`EditHolds`). For the
indices of a Vulkan renderer the region is counted in bytes, and is the place only
where both are zero, for the only dynamic input (`FirstDynamic`).

**Copies of the constructor** (`UploadProofs`, `UploadSetupProofs`), for any number
of views.

* `CopiesSafe`: `[]CopiesUndisturbed`.
* `UploadsSafe`: `[]UploadsArrive`.
* `ViewsBound`: `[]EveryViewBound`.
* `UploadedDrawsOwn`: `DrawsOwnVertices` and `DrawsOwnIndicesElsewhere` again, now
  that static data arrives copy by copy.
* `UploadTypeCorrect`: `[](SetupTypeOK /\ UploadTypeOK)`.
* `UploadImplementsSetup`: `ImplementsSetup`, which has no fairness and so is proved
  whole. `BindingsMatchLayout` and `HandlesInOrder`, which speak of a renderer
  that is built, carry over from RendererSetup.

`CopiesSafe` rests on `CopyInv`: a copy is pending only while the constructor
waits, and then exactly until the fence is signalled. The others rest on
`UploadInv`. Every copy the constructor planned has been made or is still in
`jobs`, and a wait for an empty queue is a wait for a copy that was made
(`ConstructorInv`); so when `jobs` runs out, all have been made. What `Begin` did
stays (`Arranged`), and a builder that has not begun has neither sets nor images
(`NotBegun`). `ViewsBound` counts: `ListsDistinct` makes the bindings of a type as
many as the resources of the type, so the pool, which has one descriptor per
resource and view, does not run out (`PoolSuffices`). In the refinement `Begin`,
the copies and all waits but the last are stutters, and the last is `Construct`
(`Begin` itself, where nothing is copied); that the memory is then what `Construct` would have written in one step is
`ConstructorInv` again.

**OpenGL renderers** (`RendererOGLProofs`), for any number of objects in one
context.

* `OwnersDistinct`: `[]HeldOnce`.
* `StateKept`: `[]StateAsAsked`.
* `DrawsLatestOrNone`: `[]DrawsLatestOrNothing`.
* `OGLTypeCorrect`: `[]OGLTypeOK`.

`HeldOnce` is inductive once the shape of the members is known (`Shape`). For
`StateKept`, whatever changes the context marks all other renderers as disturbed.
`DrawInv` says of a renderer that was not moved that its draw cache is the last
list, and that its indirect buffers begin with the draws of that list or are too
short for them, in which case OpenGL draws nothing.

**Library, device and window** (`DeviceVulkanProofs`), for any sizes
(`SizesAssumption`), any numbers of devices, renderers and events
(`BoundsAssumption`), any nesting of callbacks, and any machines with two
properties (`MachinesAssumption`). Surfaces that leave the extent to the
application have bounds in order. Devices that support swapchains offer at least
one format and one present mode, which Vulkan guarantees for a surface they
support: the code asserts `supports_swapchain` before it asks for either
(`hardware/device.cpp`), and does not expect an empty answer.

* `LifeOrdered`: `[]DependenciesOutlive`; `LifeUndone`: `[]TerminateUndoes`. What
  exists is a function of the point `initialise` or `terminate` is at (`LifeInv`).
* `RenderersFollow`: `[]RenderersFollowSwapchain`, from `FollowInv`, which says the
  same of renderers the application has dropped.
* `SwapchainFits`: `[]SwapchainFitsWindow`. A size the swapchain does not have yet
  is the subject of an event that is pending or of a callback still on the stack
  (`FitInv`); a callback that returns has read the size after its last wait. The
  extent is the nearest the surface allows (`RealIsNearest`).
* `ChoiceCorrect`: `[]ChoosesSuitably`. Where the queues that draw also present, a
  queue the constructor takes is one it needs (`DrawersSuit`). What the loops over devices, queue families,
  formats and modes select is the first or best element there is; `ChoiceInv` says
  that resizing keeps the choice.
* `PassesMatch`: `[]FramebuffersMatchPass`. `PassInv` has the pass and the views of
  each renderer computed from the same type and format; that the two computations
  agree is shown for each type of pass.
* `DeviceTypeCorrect`: `[]DeviceLifeTypeOK`. `BoundsInv` has the counters, and that
  every call on the stack is of a callback that was added (`CallsInv`).

**Loops** (`LoopsProofs`). Many of these facts are about loops over inputs,
resources or devices. The induction theorems of the library have an operator as a
parameter, which the provers cannot instantiate. `Counting` is an induction whose
parameter is a set instead: a set that has 0, and with every number below N the
next one, has all numbers up to N. A proof names the set of the numbers for which its
claim holds. What `Flatten` makes of a list, where each part of it starts and
what `Filter` keeps are shown this way, and so is `FirstIsStart`, about a recursive
function.

**Checked with TLC only.** Liveness, since the prover has no fairness: `CallReturns`,
`RendererCallReturns`, `ConstructorReturns`, `UpdateReturns`, and the fairness that is
part of `ImplementsPipeline` and `RendererImplementsPipeline`. The violations need one instance each. Every other
property of a passing run has a theorem.

## Not modelled

* `src/lib` is third-party code (GLFW, glad, the Vulkan memory allocator,
  stb_image, Tracy, debugbreak). Where Topaz depends on what it does, that is an operator marked
  external: queue, presentation engine, OpenGL buffers, window events.
  It is by far most of the lines in the repository; of the roughly 11,000 lines
  of code in `src/src` and `src/tools`, about a fifth has a definition of its own
  in the map of `PROJECT.json`.
* Vectors, matrices and transforms are floating-point arithmetic.
* Graphics pipeline state, vertex formats, samplers, image views and the like
  fill Vulkan or OpenGL structures from their arguments. They have no state of
  their own, and a wrong enumerator is not something a model could notice.
* Shaders are files read and handed to a compiler. `tzslc`, which prepares
  them, runs regular expressions over a text: a model would be one of
  `std::regex`.
* Containers, handles and versions wrap standard ones; the lists, flags and
  handles that matter are sequences, sets and numbers of the other modules.
* The moves and destructors of the Vulkan wrappers hand over or destroy one
  handle each. The OpenGL renderer, whose move leaves members behind, is modelled.
* Mouse, keyboard and window title are written by one callback and read by
  queries.
* Texture contents after the second layout transition are not claimed: the
  transition starts from `Undefined`, and the device may discard them.
* Dynamic resources are edited through the same mapping as dynamic inputs
  (`EditInput`), and are not repeated.
* Allocation failure and device loss end the program or are asserted against
  only; there is nothing to recover. Nothing is persisted, so there is no restart.
* Several threads: Topaz has none of its own. All concurrency is with the device,
  the presentation engine and the window system.
