# Verification of the noctua plugin

This directory holds TLA+ models of CustoNN2's FPGA plugin for OpenVINO
(`src/dldt/inference-engine/src/noctua_plugin/fpga_plugin.cpp`, called the
plugin below), of the program that calls it
(`src/dldt/inference-engine/samples/test_plugin/main.cpp`), of the OpenCL kernels
it launches, and of the inference engine's asynchronous requests; the TLC runs
that check them; and the TLAPS proofs about them. `PROJECT.json` lists the runs,
maps every definition to the lines it models, and lists the hazards of the code.

## What the program does

`mpirun` starts one process (rank) per node of the cluster; a node has two FPGAs.
Every rank reads the same network (an OpenVINO IR), turns it into a tree of
layers, and flashes its two FPGAs with two bitstreams, which differ from rank to
rank. Then, in the *global* design, the ranks walk the same tree and launch the
kernels that are in their own bitstreams; outputs stay in global memory and go
from the last layer of a rank to the next rank in three MPI messages. In the
*channel* (hybrid) design the kernels of all FPGAs exchange packets through
channels, over serial cables from FPGA to FPGA, and the ranks only launch
kernels; one host waits for the result.

The inference engine around the plugin has a second way to run inferences:
asynchronous requests, whose tasks two threads per network execute.

## Inventory

Line numbers are those of the plugin unless another file is named.

| component | state it keeps | operations | talks to | what makes it correct |
|---|---|---|---|---|
| layer tree: `parse_root` 256, `parse_child` 478, `isDuplicate` 102, `find_missing_duplicates` 411, `findbyID` 364 | the nodes (`layersDetails` 47: children, parents, ID, indices), `ID_list`, `layerIDMap` | a depth-first recursion over the network, then a breadth-first pass | reads `CNNNetwork`; the launchers walk its result | one node per layer; the children pointers form a tree; each layer has all its parents, acyclic and, for a Concat, in the order of its inputs; the recursion ends |
| start of a rank: `fpga_launcher` 729 | contexts, programs, kernel lists, `buffers`, `buffer_index` | parse, flash, `MPI_Barrier`, receive or load the image, call a launcher | main, MPI, OpenCL | name, size and data are received as they were sent; `find_by_name` 442 gives the children of the sent layer the right index |
| global launcher: `launcher_global` 1056 | queue `q`, counter `n`, `visited`, `layerOutBufferIndex`, `parentOutBufferIndex` | take nodes, skip dummies, pass remote layers, put back layers that are not ready, launch, send, read the scores | the tree, kernels, MPI | every local layer launched once, after its parents, on the right buffers; the walk and the job end; the scores are those of the last layer |
| channel launcher: `launcher_channel` 1692 | queues, buffers, indices in the tree, feeder and padding kernels | launch feeders, walk the tree, enqueue every layer, wait for the branches of a Concat, read the scores | kernels, the route map, MPI (barrier and finalize only) | everything enqueued in an order in which no kernel waits for ever; a Concat reads the finished outputs of its branches; nobody sends to an FPGA that is being flashed; no process leaves running kernels behind |
| channel kernels: `src/OpenCL_Kernels/Googlenet/hybird_design` | packets in bounded channels | read, compute, write packets | each other, over a torus of four serial links per FPGA | counts and order of packets agree, so that no kernel blocks for ever and no packet stays behind |
| route map: `build_topo_map` 2491, `torus_mod.xml` | kernel name → input and output port | parse the XML, look up | feeders and kernels | each sender's port is cabled to the port its receiver listens on |
| kernels with global memory: `src/OpenCL_Kernels/Googlenet/global_optimized`, `ResNet_50` | none | arithmetic on tensors, padding by index arithmetic | buffers | no index out of the tensor; every float where the next kernel expects it |
| asynchronous requests: `cpp_interfaces/impl/ie_infer_async_request_thread_safe_*.hpp`, `ie_task*.cpp` of the inference engine | busy flag and tasks of a request, queues of two executors, a synchronizer | `StartAsync`, `Infer`, `Wait`, the callback, destructors | threads of the application, two executor threads | each inference runs once and is told truly; nothing of a request is used after it is destroyed; everything ends |
| results: `getTopNResults` 2444 | none | partial sort of the scores | main | the N best, in order |
| main: `test_plugin/main.cpp` | options | options, MPI, exit codes | all | an exception ends the whole job |

Left aside: image preprocessing (`parse_images` 193), renaming of layers (120),
printers (615–681), the XML reader of kernel lists (689), LeNet and other early
kernels, the performance model (a static estimate of running times), and the rest
of `src/dldt`, which is OpenVINO itself. See *Not modelled*.

The behaviours that are hard here: a tree with duplicates and "transparent"
layers that several traversals use without marking nodes; a queue that drops
nodes, passes nodes and puts nodes back, with a hand-kept count; buffer indices
left in the tree by one launch for another, or by a receive; ranks that each hold
part of the kernels and count remote parents as visited; blocking sends and
receives with one tag; an exception on one rank while others wait; dozens of kernels
that block on one another through small channels and keep their packet counts in
literals; hosts that return while their kernels run; requests whose flag is tested
and set apart, and whose two threads hand each other tasks. `PROJECT.json`
("hazards") has each of them at its line, with the properties that cover it.

## Modules

| module | what it is |
|---|---|
| `Network` | what the plugin reads of a `CNNNetwork`; `supported_layers`, `isLayerSupported`, the root test |
| `LayerTree` | the parse, one step per call and per return of `parse_child`, then one step per node of `find_missing_duplicates` |
| `ParseTree` | the same functions as recursive operators; the launchers' models take their tree from here |
| `Slices` | slices of GoogLeNet and of ResNet-50: their layers, consumers' order and types |
| `Inference` | abstract: each layer computed at most once, from its inputs; the answer is the last layer's output |
| `GlobalDesign`, `Cuts` | all ranks of the global design, from the flashing of the FPGAs to the end; the slices as those launchers see them |
| `KernelNet` | the kernels of the channel design as a graph: loops, packets, outputs, channel depths; what a consistent graph is (`IsKernelNet`) |
| `ChannelKernels` | the graphs of the real bitstreams, with the numbers of the source or with small ones |
| `Packets` | the kernels at work, packet by packet, through bounded channels |
| `Streams` | abstract: what the kernels promise to the hosts, with whole tensors in place of packets |
| `Routes`, `TopoMap` | the routing file, devices and cables; `build_topo_map` entry by entry |
| `ChannelWalk` | the walk of `launcher_channel` as a function: the order in which a host launches |
| `ChannelDesign`, `ChannelCuts` | all hosts of the channel design with the kernels they enqueue (as `Streams` has them); the slice they run |
| `Padding` | the index arithmetic of the padding kernels |
| `AsyncRequest` | requests, owners, executors and callbacks of one executable network |
| `Completion` | abstract: what `IInferRequest` promises |
| `MCLayerTree`, `MCGlobal`, `MCPackets`, `MCTopoMap`, `MCChannel`, `MCAsync` | the instances TLC checks |
| `*_proofs` | theorems and proofs: `LayerTree_`, `GlobalDesign_`, `GlobalInference_` (the tensors and the walk of the global design), `KernelNet_`, `Packets_`, `ChannelDesign_`, `Padding_`, `AsyncRequest_proofs` |

Three compositions hold the parts together. The tree `ParseTree` builds is what
`GlobalDesign` and `ChannelDesign` walk, and `SameAsRecursion` says it is the one
the step-by-step parse builds. `Packets` implements `Streams`, and `Streams` is
what `ChannelDesign` relies on and in turn respects (`RefinesStreams` on both
sides: the kernels keep the promise under hosts that start them as `Streams`
allows, and the hosts do start them so). Both designs implement `Inference`.
Its `answer` is mapped to the last layer once a rank has read that layer's scores, so
what refining it says is the order of the computations and the inputs of each.

A definition `...Mutant` is the one after it with a plausible bug; nothing uses
it. `PROJECT.json` ("mutants") names, for every property, one with which the
property fails.

### LayerTree and the code

A node is a position of the sequence `tree`, which is its address; a frame of
`stack` is an active call of `parse_child` with its loop variable. `ParseLayer`,
`ParseDuplicate` and `ParseUnsupported` are the three ways a call starts
(`isLayerSupported` and `isDuplicate`), `ParseReturn` is the push on the
caller's children. The node `anyName` that an unsupported layer returns keeps a
`layerID` that is never assigned: its value is any member of `GarbageIDs`. What
is abstracted: names, weights, shapes and strides of the layers.

### GlobalDesign and the code

`pc[r]` tells where rank r is: flashing, at the barrier, in one of the three
receives, in the walk, before or inside an `MPI_Send`, reading the scores, or
over. `queue`, `n`, `visited`, `outBuf`, `parentBuf` and `buffers` are the code's
variables. One pass of the inner loop is one step: it drops the dummies at the
front and treats the first other node (`PassOn`, `PutBack`, `Launch`,
`MissingArgument`; `FrontOfEmpty` is `front()` of an empty `std::queue`, which is
undefined and modelled as an absorbing state). A launch takes the entries
of `buffers[]` that the code counts for the layer (`NewBuffers`), keeps the index of
its output's (`OutSlot`), reads its arguments by index and waits for the kernel. The
code counts an entry for each input of a kernel and creates no buffer for it; these
entries are `Unset`, a value that is no tensor. The differences between the types of layers
are kept: which parents are waited for (`Ready`), that a ScaleShift is not put
back, that only Concat and some Eltwise layers send, that a Reshape is never
marked as visited, that a node put back is not counted off `n`.

A tensor is named by the layer that ought to have produced it. A kernel applied
to anything else than its layer's inputs yields `Garbage`, so one wrong index
anywhere shows up in `TensorsRight` from there on. The name of a sent layer
arrives as itself or as `Unknown`: the receiver's char array is not initialised
and the sender does not send the final NUL.

MPI is modelled by a sequence of messages from each rank to the next. A send
returns when its message was received (`SendMatched`) or earlier
(`SendBuffered`); all messages have one tag and keep their order. `Abort` is
mpirun ending the other processes when one ends without `MPI_Finalize`.

### Packets and the kernels

A kernel of the hybrid design reads its input channel into an array, computes,
and writes to its output channels, with the loops and the packet counts in
literals. `KernelNet` keeps of it how often the outer loop runs (`rounds`: once,
or once per packet in a feeder, or once per plane in a pooling), how many packets
it reads and then writes in each (`reads`, `writes`), to whom, in turn (`outs`),
and the depth of the channels. A channel has one reader, so it is named by it.
`Packets` has one action per packet read (`Read`, blocks on an empty channel),
per packet written (`Write`, blocks on a full one) and per round (`Turn`); `Start`
is `enqueueTask` by the host, which for a Concat has waited for the branches
(`after`). What the packets hold is abstracted.

`ChannelKernels.GoogLeNetKernels` is the whole network of kernels of the nine
modules and the stem with the numbers of the source (157323, 64·112·112, …).

### ChannelDesign and the code

`launcher_channel` never waits but for a Concat and for the scores, so a host is
a sequence: `Options` (main demands `-route`, `build_topo_map` checks the ports),
`Flash`, `Barrier`, its feeders one by one (`Feed`), and its layers in the order
of the walk. That order depends on nothing but the tree and the host's kernel
lists, so it is computed beforehand by `ChannelWalk` (the loop `GlobalDesign`
takes step by step). `LaunchPad`/`LaunchPadded` are the two enqueues of a padded
convolution, `LaunchUnpadded`, `LaunchPooling`, `LaunchConcat` the others; each
allocates the code's buffers, including those that are counted and never made,
and leaves `layerOutBufferIndex` (`outBuf`). `LaunchConcat` waits for the queues of
the four parents and reads their outputs through these indices. `ReadScores` is
the return after the last convolution, `WalkEnds` the return with kernels still
running, `Exit` the end of main, which `MPI_Finalize` holds until all are there.

The kernels are those of `Streams` (`Deliver`), with two things added: a tensor
reaches the feeder of another FPGA only if the sender's port is cabled to the
port the feeder listens on (`Arrives`, from `Routes`), and a convolution at the
end of a branch has ended when its output is in global memory (`End`).

### TopoMap and the code

`ReadEntry` is one pass of the loop over the XML: two `insert`s, of which the
first entry for a name wins. `InvalidEntry` is `exit(-1)` on a port above 3.
`Lookup` is `operator[]`, which answers 0 for a name that is not there, and the
code does rely on it (the feeder of 5b asks for "5a", which the file does not
have). `Device` is the swap of the two bitstreams on odd ranks. The cables
(`Arrival`) are outside the repository; their layout is taken from the ports that
the repository's routing file gives.

### AsyncRequest and the code

`request[q]` are the fields of `AsyncInferRequestThreadSafeDefault`, `tasks` those
of its `StagedTask`s, `taskQueue` the queues of the executor of inferences and of
that of callbacks, `syncQueue` the queue of the `TaskSynchronizer`. Threads are the
owners of the requests (they call `StartAsync`, `Infer`, `Wait(RESULT_READY)` and
let go of the request) and the two executors; a callback is a part of the turn of
the executor of callbacks and may call `StartAsync`. Every access to shared state
is a step: the test of the busy flag (`IsRequestBusy`) and its setting (`SetBusy`),
the choice of the next task, the reset of its stages, its start. A critical
section is one step. Three things that happen in several critical sections are
one step because nothing can be seen between them: `startTask` occupies a task and
then queues it (a busy task is not touched by others until it is run), the
end of a turn sets the status and pops the queue (only this thread pops), and
`asyncTaskCopy` is taken when the lambda begins.

An inference ends well or throws (`EndInfer` chooses), the failure goes through
`processAsyncTaskFailure` to the callback with its code. An owner without a
callback does what it likes; one with a callback waits when the last callback was
called, or, in the sample's run, once per repetition.

### Padding and the code

A padding kernel is a record of the literals in its loop, its test and its index;
`Copies`, `Source` and `T_pad` are the test, the index and the loop. The kernels
before the first convolutions, which read an image with its colours side by side, have
their own (`StemCopies`, `StemSource`). The sources have a
hundred padding kernels (with those of `ResNet_50/baseline` and `units_opv1`); the
copies with the same side and depth have the same literals.

## What is checked

| run | shows |
|---|---|
| `layer_tree` | every DAG of four layers, with every choice of supported layers and every order of names, and slices of GoogLeNet and of a network that ends in a sum: one node per layer (`OneNodePerLayer`), a tree of children (`ChildrenFormTree`), acyclic and complete parents (`ParentsAbove`, `ParentsComplete`), in the order of a Concat's inputs for the slices (`ConcatInputsInOrder`), the same tree as the recursion (`SameAsRecursion`), and an end (`ParseEnds`) |
| `global_googlenet` | three ranks on GoogLeNet: right tensors (`TensorsRight`), no undefined `front()` (`NothingUndefined`), messages meet receives (`ReceivesMatch`), no node queued twice (`QueuedOnce`), every index that of a buffer that was created (`BuffersCreated`), no walk round and round layers of which none may be launched (`WalkGoesOn`) |
| `global_resnet` | three ranks on ResNet-50: they implement `Inference` (`RefinesInference`), arguments are found, five entries of `buffers[]` per launch |
| `global_googlenet_live` | every rank ends (`EveryRankEnds`); with unspoilt names some rank has the classification (`Classified`) |
| `headless` | a network that ends in a sum, with one process too few: the walk does reach `front()` of an empty queue, but only after every local layer was launched (`AllLaunched`, in effect of rank 0, since rank 1 always fails at its send); a send to a rank that does not exist fails, and no rank waits for ever for another (`NoDeadlock`) |
| `packets` | the kernels of an inception module behind a feeder and the FPGA before it, in any interleaving: nothing blocks for good (`NoStall`), no channel overflows (`TypeOK`) or keeps a packet (`NoLeftovers`), every kernel ends, and the kernels implement `Streams`. TLC also evaluates `SourceCounts` and `PaddedCounts`: the loops of all kernels of the source agree, and those of the padding kernels with the maps they pad |
| `topo_map` | from the repository's routing file, with any two entries swapped and with a second entry for a module, every hop between two bitstreams goes to where the next feeder listens (`HopsConnected`); an invalid port ends the host |
| `channel_three` | three hosts with all their kernels: a Concat reads the finished outputs of its branches (`ConcatInputsRight`), nobody sends to an FPGA being flashed (`NobodySendsToAFlash`), no process leaves kernels behind (`NoKernelAbandoned`), and hosts and kernels never all wait for one another (`NoDeadlock`) |
| `channel_two` | two hosts start kernels as `Streams` allows, implement `Inference`, find the classification and end (`ClassifiedAndOver`) |
| `async` | two requests: the busy flag is set while an inference runs (`BusyWhileInferring`), one inference at a time (`OneInferAtATime`), no use of a destroyed request (`NoUseAfterDestruction`), the promises of `IInferRequest` kept (`RefinesCompletion`), two tasks suffice for a request (`TypeOK`), the threads never all wait for one another (`NoDeadlock`), everything ends (`EverythingEnds`); all this of owners that do not call `Wait` in a loop beside a callback that starts the next inference (`WaitsInLoop` is empty), which `async_sample` does |
| `async_sample`, `spoilt_name` | violations: see Findings |

### Bounds

* *Parse.* Four layers are enough for the parse's cases: a join reached on two
  paths, one of them through one or two unsupported layers, a second join, and a
  root that is not the first layer. All 24 orders of names are taken, because the
  order of consumers is the order of their names.
* *Launchers.* The slices keep whole modules of the real networks (an inception
  module with its four branches and a ReLU after each convolution; bottleneck
  units with each of the three kinds of shortcut) and the cuts at the real places:
  stem and a module on one rank in two bitstreams, a rank in the middle that
  takes and gives, a last rank with the classifier. A rank's behaviour depends on
  its own kernels, the layers around them and one predecessor, so repeating
  modules or ranks adds length and no new case. The number of ranks is 3 (first,
  middle, last) or 2.
* *Packets.* Up to three packets per tensor in channels of depth 1: a channel
  is full and empty, and a kernel is between its reads and its writes, several
  times. Larger counts are the proof's business, which needs only `IsKernelNet`.
  `Slice = "pooled"` and `"stem"` of `MCPackets` are the two other shapes of
  modules and can be put into its configuration.
* *Asynchronous requests.* Two requests (they share the executors and the
  synchronizer and nothing else), three inferences in the chain of callbacks (the
  third is the first to take a task that ended), one `StartAsync` and one `Infer`
  of the other request, a synchronizer of two places.

`CHECK_DEADLOCK FALSE`: in these models processes end. That they end, or do not
get stuck, is a property of its own (`EveryRankEnds`, `WalkGoesOn`, the three `NoDeadlock`,
`NoStall`, `EveryKernelEnds`, `ClassifiedAndOver`, `EverythingEnds`, `ParseEnds`).

### Fairness

* A rank or a host is a single thread, so `Step(r)` is weakly fair: it goes on
  when it can, and an `MPI_Recv`, `MPI_Send`, `MPI_Barrier` or `finish()` returns
  when what it waits for has come. `Abort(r)` is weakly fair because mpirun kills
  the job. `SendBuffered` has no fairness: nobody may rely on MPI to buffer, and
  the ranks end without it.
* Each kernel is a circuit of its own: `Step(k)` and `Start(k)` of `Packets` and
  `Work(k)` of `ChannelDesign` are weakly fair per kernel.
* Threads of the inference engine are scheduled by the operating system: weak
  fairness per thread. Strong fairness of the owners' `WaitOrLetGo` says that no
  application starts inferences for ever: it does not come from the
  code modelled but from its users, and only `EverythingEnds` needs it (destructors
  of executors wait for requests to be let go of).
* The parse is one thread (`WF_vars(Next)`).

## What is proved

All theorems are for every value of the constants that satisfies the named
assumptions, which TLC evaluates on every instance it checks.

**The parse** (`LayerTree_proofs`), for every network:

* `ParseTypeCorrect`: `Spec => []TypeOK`; every address the parse follows is that
  of an allocated node. No run repeats it.
* `OneNode`: `Spec => []OneNodePerLayer`.
* `ParentsLieAbove`: `Spec => []ParentsAbove`; no layer is its own ancestor.
* `ChildrenAreATree`: `Spec => []ChildrenFormTree`; once the parse has ended, each
  node but the root hangs in one place, below an earlier node.
* `ParentsAreFeeders`: `Spec => []FeedersAreParents`; the parents a node ends with
  are exactly the layers that feed its layer, straight or through unsupported layers.

The assumptions are `NetworksAssumption` (a network is well typed, has one layer
per ID and is acyclic: a number, `depth`, grows along every edge) and
`GarbageAssumption`. `OneNodePerLayer` is not inductive. A layer other than the
root is caught by `isDuplicate`, because its ID is in `ID_list` (`IDsOK`), but the
ID of the root never enters the list: a second node for the root is excluded only
because every active call is for a layer that is not above the root (`FramesOK`)
and a consumer lies strictly below. The same fact about the node a call works for
(`NotBelow`: a call for an unsupported layer works for a node above it) puts the
parent of each new node and dummy above it; `DummiesOK` keeps that for dummies,
whose parents `findbyID` copies to the layer later, and says that a dummy has a
parent, so that `parents.at(0)` in `find_missing_duplicates` does not throw.

`ChildrenAreATree` is about the moment when the parse is over, and says nothing
before: a node hangs nowhere from its allocation until the call that made it
returns. Its invariant `HangInv` fills the gap. A node that hangs nowhere is the
root or is what one active call is going to return (`Loose`), no two calls return the
same node, and each call was made for a node older than what it returns; so that
the `push_back` of the caller gives every node the one place it is missing.

`ParentsAreFeeders` says of a set what `ParentsComplete` says of the number of
paths. What feeds a layer (`Fed`) is a least set, for a prover cannot unfold
the recursion that counts. Half of it is that no parent is wrong (`Sound`). For the
other half, while the calls for a node run there is a set of layers they have
looked at (`Covers`): the supported ones are recorded, as parent of a node or of a
dummy, and what follows the others is in the set too, or an active call has yet to come
to it (`Pending`). At the end there is no active call, so the set contains all that
the layer feeds. What is recorded in a dummy only is brought to the node by
`find_missing_duplicates`, if its search meets the dummy: what it has taken
from the queue and what waits there is closed under children (`SearchOK`), and
by `ChildrenAreATree` a node that was never queued would hang on an earlier one
like it, down to the root.

**The global design**, for every tree, network, cut into bitstreams, and number
of ranks. In `GlobalDesign_proofs`:

* `TypeCorrect`: `Spec => []TypeOK`.
* `CreatedBuffers`: `Spec => []BuffersCreated`; every index in the tree of a
  walking rank is below `buffer_index` and is not one of the entries that are counted
  for the inputs of kernels and never created, so no kernel or read gets an unset
  pointer.
* `BuffersCounted`: `Spec => []FiveBuffersPerLaunch`, and from it `BuffersFit`:
  with at most 99 layers the array of 500 buffers, which the code never checks,
  is not overrun.
* `ReceivesMeetSends`: `Spec => []ReceivesMatch`; each receive takes the message
  meant for it although all have one tag, however many layers a rank sends.
* `NoNodeTwice`: `Spec => []QueuedOnce`; no node waits twice in a queue or after
  its launch.

In `GlobalInference_proofs`:

* `KernelsReadTheirInputs`: `Spec => []TensorsRight`; every kernel has run on the
  outputs of exactly the layers that feed its layer.
* `KernelsFindArguments`: if the last rank has no layer to send, `Spec =>
  []ArgumentsFound`; `parentOutBufferIndex.at(0)` of a launched layer throws only
  behind a spoilt name.
* `ImplementsInference`: `Spec => RefinesInference`.
* `EveryLayerLaunched`: `Spec => []AllLaunched`.
* `ClassifierEnds`: the rank that holds the last layer and does not send it never
  takes the front of an empty queue (its part of `NothingUndefined`), and
  `launcher_global` returns there only with the scores of that layer.
* `WalksGoOn`: `Spec => []WalkGoesOn`; no rank walks round and round a queue of layers
  of which none may be launched.
* `NobodyStuck`: `Spec => []NoDeadlock`; however many ranks there are and even if MPI
  buffers nothing, as long as one has not ended some rank can go on, or mpirun can end
  the others.

Assumptions: `RankAssumption` (there is a rank), `LayerAssumption` (types of the
tables), `TreeAssumption` (addresses in the tree are positions, the root is a
layer, parents of layers are layers), which the parse establishes by
`ParseTypeCorrect` and `ParentsLieAbove` (the root's own part by the `layer_tree`
run), and, from `NoNodeTwice` on, `ChildrenAssumption` (each node but the root is on
one list of children, once, on that of an earlier node), which is
`ChildrenFormTree`, proved for the parse as `ChildrenAreATree`. Only the types in `LayerAssumption` are
supported. The second module needs what the real networks and cuts satisfy and
TLC evaluates on all four examples: `InputsAssumption` (a layer has one node, whose
parents are its inputs: as sets, that is `OneNodePerLayer` and `FeedersAreParents`,
proved for the parse; their number and order are `ParentsComplete` and
`ConcatInputsInOrder`),
`CutAssumption` (a layer is in the bitstreams of one rank, a rank sends one
output, and needs nothing else of other ranks than the output the rank before it
sends: a rank that needs two gets the same one for both),
`LastAssumption` (on its rank, the last layer is fed by every other layer, directly
or not) and `NameAssumption` (the model's own values differ). The last two theorems
need two more: `OrderAssumption` (layers do not wait for one another in a circle, a number,
`Depth`, grows along the parents, which is `ParentsAbove` of the parse; and a layer is below
one of its parents in the tree) and `WaitAssumption` (a Concat is in a bitstream of the
rank of its branches, a Reshape follows the last layer, and every rank but the last has a
layer to send). The hypothesis of
`KernelsFindArguments` is needed too: in the example `headless` the last rank does
send, to a rank that does not exist, and fails.

The inductive invariant is `TypeOK` with four facts it needs. Reading the
scores is well typed only if the index of the last layer's output is in range, so
`BuffersCreated` is part of it. Indices start at 0, where every first launch and every
receive puts a buffer (`FirstTensor`), but only once it has happened, so a rank that has not begun to walk must have an
untouched tree (`EarlyFresh`). A receive reads the channel of rank r − 1, so rank 0
must never receive (`ReceiversOK`), and a send takes the head of what is unsent, so
that must not be empty (`SendersOK`). For the messages, `StreamsOK` says that the
channel followed by what is unsent is a row of whole groups (name, dims, data), of
which the first may have lost the messages already taken, and that the receiver
stands at just that place. For the queue, the code keeps no set of the nodes it
has passed (it marks only launched ones), so the invariant says that there is
one (`WalksOnce`): a set of passed nodes to whose children all waiting nodes
belong and that has none of the waiting; passing a node adds it to the set.

`TensorsOK` follows a tensor. A launched layer has its output in the buffer that its
index names, and an index of any other node is 0 (`NodesOK`); the first buffer of a
rank is the image or what the rank before has sent (`FirstBufferOK`); indices given
to a child are those of its parent's output (`IndicesOK`) and the children of
launched and received layers have been given one (`IndexedOK`); a message carries the
output its rank sends (`MessagesOK`). The index 0 of a remote parent is right
because it names the first buffer, and that is where the only received output is.
For `EveryLayerLaunched` one has to show that no local layer is lost although the
walk drops nodes, passes nodes, and ends in the middle of the tree at the last
layer: what remains is always reached from the nodes in the queue, so a walk that
ends by an empty queue has launched all, and one that ends at the last layer
has launched what feeds it, which is everything. The same invariant gives
`ClassifierEnds`: were the queue empty on the rank of the last layer, that layer would
have been launched, and its launch is followed by the read of the scores.

A walk has no counter of its progress: a layer that is not ready is put back, and a queue
of such layers alone would turn for ever. For `WalksGoOn`, take the least deep (`Depth`) of
the layers whose children have not been queued yet. The children of its parents have been,
so it is in the queue itself, and its parents are launched or remote; a remote parent counts as
launched, except for a Concat, which has none. So this layer may be launched, or passed if it
is not one of this rank (`SomethingPassable`).
For `NobodyStuck` the messages are counted: those on the way from a rank, those it has still
to send and those the next one has taken are three or none, as the rank has launched a layer
to send or not (`CountOK`). So a rank that waits to be rid of a message waits for one that
still receives, and finds the message. And of those that wait to receive, take the first: the
rank before it has ended, without a failure, so it has launched all it had to
(`WalkComplete`), its layer to send among them, and has sent all (`SentOut`): the
three messages are on the way. What `NobodyStuck` leaves to TLC for termination is that a
walk that goes on comes to an end (`EveryRankEnds`).

**The channel kernels** (`Packets_proofs`), for every network of kernels with
`IsKernelNet`, that is, with one writer per channel, the same number of packets on
both sides of it, no cycle, and, where outputs are written in turn, tensors of more
packets than a channel holds:

* `TypeCorrect`, `ChannelsEmptied` (`NoLeftovers`), `KernelsNeverStall` (`NoStall`),
  `KernelsImplementStreams` (the safety part `Init /\ [][Next]_vars` of
  `RefinesStreams`, which is all there is of it).

Since TLC evaluates `IsKernelNet(GoogLeNetKernels)` with the numbers of the
source, these hold of the real kernels with their hundreds of thousands of packets,
which no run could follow. The inductive invariant counts: what a channel holds is
what its writer has put into it less what its reader has taken (`Fill`), the
writer's count being off by one for the outputs it has already served in this turn.
For `KernelsNeverStall`, suppose that nothing can move. The unfinished kernel of
lowest level has all its input, because its feeder has ended, so it is a
writer blocked by a full channel; take the blocked writer of highest level: its
reader has packets to read, cannot be blocked writing itself, and so can move.
It needs no channel to be deeper than one packet.

**The channel launcher** (`ChannelDesign_proofs`), for every network, cut and number
of hosts:

* `TypeCorrect`, `ConcatInputs` (`ConcatInputsRight`), `NobodySends`
  (`NobodySendsToAFlash`), `NoneAbandoned` (`NoKernelAbandoned`),
  `HostsImplementStreams` (`RefinesStreams`).
* `NobodyStuck`: `Spec => []NoDeadlock`; hosts that wait for a Concat's branches, for the
  scores or for one another never wait for kernels that wait for them.
* `ImplementsOneMachine`: `Spec => RefinesInference`; hosts, cables and kernels
  together do what one machine would that computes the layers one by one.

The assumptions are the named ones of `ChannelDesign`: types
(`ChannelAssumption`), each kernel enqueued at one place (`PlaceAssumption`), none
forgotten and the last layer last (`CoverAssumption`), a Concat on the host of its
branches, with parents in the order of its inputs (`ConcatAssumption`; for
the slices that is `ConcatInputsInOrder` of `layer_tree`), and, for the last
theorem, `InputsAssumption` (what a layer other than a Concat reads comes over a
channel from the kernel of its input, with at most one feeder or padding kernel between
them; TLC evaluates it on both cuts), and for `NobodyStuck`, `ScheduleAssumption`: what a
host enqueues after a Concat lies deeper in the network than the Concat, with all that is written
by the same kernels (`Siblings`), and every sender's port is cabled to where its reader
listens. Both parts are evaluated on both cuts; the second is what `topo_map` shows of the
repository's routing file. The inductive invariant
`IInv` adds to `TypeOK` that what was started is just what lies before the place
where each host is (`StartedOK`), that no host leaves the barrier before all have
flashed nor ends before all are done (`TogetherOK`), which buffers the outputs of
launched layers are in (`KeptOK`), and that a kernel has got its input only after
the one that feeds it (`FlowOK`). `NoneAbandoned` is the surprising one, as only one host waits
for anything at the end. It holds because of `MPI_Finalize`, and because everything
a kernel makes is needed, in the end, for what that host waits for.

For `NobodyStuck`, suppose that every host waits and no kernel can move. A kernel that was not
started is held back by a host that waits for the branches of a Concat, and lies deeper than
the Concat (`NotStarted`, `HeldBack`). Take the least deep kernel that has not got its input.
What feeds it has got its own, and only a kernel that is not started, itself or another
reader of what feeds it, can keep it from its input. That one is held back for a Concat
whose branches have not ended, so that one of these has not got its input and is no less
deep, and the Concat is deeper still; yet it lies, with its `Siblings`, below the Concat
(`LowestGoesOn`). So all kernels have got their input, and the waits are over. All hosts read the
same routing file, so they pass its check or fail together (`OptionsOK`); if one could fail
alone the others would wait at the barrier.

For `ImplementsOneMachine` a launch of a layer that reads buffers, and the moment at
which a kernel has got its last packet, are the `Compute` of `Inference`, the blocking read
of the scores is its `Answer`, and every other step stutters. The read needs one more
fact (`ReadOK`): a host that waits for the scores has launched the last layer, so
that the buffer it reads holds that layer's output and not what was there before.

**Asynchronous requests** (`AsyncRequest_proofs`), for any number of requests, with or
without callbacks, and of inferences, if no owner waits while a callback starts the
next inference (`Callback \cap WaitsInLoop = {}`):

* `TwoTasksAreEnough`: `Spec => []TypeOK`; the list of tasks of a request never gets a
  third that is asked for, however long the chain of callbacks.
* `BusyUntilInferred` (`BusyWhileInferring`), `OneAtATime` (`OneInferAtATime`),
  `NoTaskOutlives` (`NoUseAfterDestruction`).
* `KeepsThePromise`: `Spec => RefinesCompletion`.
* `NobodyStuck`: `Spec => []NoDeadlock`; until all threads have ended some thread can go
  on, whichever inferences fail.

Assumptions: `RequestAssumption` and `ThreadAssumption` (owners and executors are
different threads). The hypothesis is needed: with an owner that waits in a loop beside
its callback, TLC finds `TypeOK` and `BusyWhileInferring` violated, as `async_sample`
finds the promise of the sample broken (see Findings). The set `Task` has three tasks
per request, which bounds nothing: by `TwoTasksAreEnough` the third is never made.

The inductive invariant `IInv` says where each task is (in the queue of an
executor, in its hands, or nowhere) and in which status and stage that leaves it at each
line of the executor (`FirstTurn`, `SecondTurn`); that an executor holds the head of its
queue, which has no task twice; and of each request that at most one task is *live*,
that is, between its start and its callback, and that it is the one both `async` and
`current` name (`InferenceOK`). All that the code does without a lock rests on the last
part: between the test of the busy flag and its setting nobody else can start
an inference, because a request without a callback is busy while a task is live, and
one with a callback is started by its owner only before the first and by its callback
only after the last has ended (`StartOK`, `OwnerOK`, `CallbackOK`). An owner that waited
beside the callback would break just this.

For `KeepsThePromise` a second invariant, `Promises`, counts: the inferences started,
ended and called back differ by at most the live task (`CountOK`); the code and the
exception that the callback will read are those of the last result (`CodeOK`), across
the failure that resets them and the start that clears them; the task of the last
inference ends in the status of its result (`FreshOK`, `EndOK`), so that the answer
`Wait` takes from the task is that result (`WaitedOK`). `StartAsyncTask` is then the
`StartAsync` of `Completion`, `EndInfer` its `Finish`, `RunCallback` its
`CompletionCallback`, `WaitEnds` its `Wait`, and every other step stutters. Both
invariants were checked with TLC on three configurations before they were proved.

`NoDeadlock` lists for each thread the lines at which it can be held up (`OwnerWaits`,
`ExecutorWaits`); on the instance of `async` TLC found that all threads wait or have
ended just when no step is enabled. For `NobodyStuck` a third invariant, `GoingOn`, says
that what each waits for comes. Of a request with a callback (`Lively`): the callback
finds the flag clear, and runs in the task started last until it starts another, so
that the start it asks for is not refused (`CallingOK`); as long as inferences are wanted either one is live
or the executor of callbacks is about to start one (`ChainOK`); its owner waits once,
and after that nothing of the request is queued (`WaitsOnce`), so that the destructor never
runs inside the task it waits for. Of the synchronizer: who is in its queue is there
once, and on the way to `Unlock` (`LineOK`). Of the executors: they are stopped after the
requests, in their order (`StopOK`). Suppose then that all threads wait and some request
has not ended. No executor was told to stop, so none has ended; the
executor of inferences can always run the task it holds, so it holds none and its queue is empty;
the executor of callbacks could be kept from its task only by the other, so its queue
is empty too (`NothingToRun`). But then every task has ended, no sleeper sleeps on, the
head of the line of `Infer` goes on, the destructors go on, and an owner that waits for
callbacks would have to have a live inference (`OwnerGoesOn`). If all requests have ended,
`Stop` and `Exit` are left, first for the executor of callbacks.

**Padding** (`Padding_proofs`), for maps of every side and depth: `FitsPadsRight`, a
kernel whose literals fit its side and depth fills every cell of the padded map with
what belongs there and never reads outside its input. The literals of each kernel
before a 3x3 convolution, of both networks, are seen to fit (`PaddingRight`), so its map
is the input in a frame of zeros (`PaddedMap`). The same of the two kernels before the
first convolutions, which also sort colours into planes: GoogLeNet's `Padding_1a`, to
229x229 cells, and ResNet-50's `P_conv1`, to 230x230 (`StemPaddingRight`). `PaddedCounts`,
evaluated by TLC, ties the kernels of GoogLeNet to the packet counts of `ChannelKernels`.

**Only model-checked**: liveness and termination (out of the prover's reach); what
the recursive operators of `ParseTree` and `ChannelWalk` compute (`SameAsRecursion`,
`ConcatInputsInOrder`); `ParentsComplete` (it counts paths by a recursive
operator, where `ParentsAreFeeders` proves the sets equal); `NothingUndefined` of the
global design on the ranks that `ClassifierEnds` says nothing of (there it depends on
whether nothing but dummies is left in the queue before a level ends, a matter of
one tree and one cut); `HopsConnected` (one file, one set of cables).

## Findings

`spoilt_name`. `fpga_launcher` receives the name of the layer into
`char layer_name[50]` (990), which it does not initialise, and makes a string of
it up to the first NUL; the sender sends `size()` characters without the NUL
(1441). If the stack holds anything but 0 after them, the name matches no layer,
`find_by_name` gives nobody the index of the received buffer,
`parentOutBufferIndex.at(0)` of the first local layer throws and the job ends.
The run shows the shortest such behaviour. `Classified` shows that with clean
names the classification is computed.

`async_sample`. `initNextAsyncTask` makes the next task the current one before
`startAsyncTask` occupies it. A `Wait` of another thread in between takes a task that
is new, or that ended in its previous use, and returns at once. The sample
`hello_request_classification` waits in a loop "for all repetition of async
requests" while its callback starts them: the loop can end while the last
repetition is not even queued, and the sample goes on to read the output. In the
run `async` the owner waits only after the last callback, and then all is well.

## Hazards without a property

* Whether the OpenCL runtime takes a buffer made in the context of the other FPGA
  as an argument (1139) is not decided by this code.
* The array of 250 kernels (928) fills as the array of buffers does, for half the
  length.
* A request whose owner lets go of it during its callback is destroyed inside the
  task that its destructor waits for (`ie_infer_async_request_thread_safe_default.hpp`
  56): `Called` has the step, but the owners of the passing run wait before
  they let go, as they must.
* A `Wait` with a time-out clears the busy flag of a request that still runs
  (ib. 210): `Wait` with a time-out is not modelled, since every use of it before
  the end of an inference breaks `BusyWhileInferring`.
* `lock()` of a full synchronizer throws after the task was occupied, which then
  stays busy (`ie_task_synchronizer.hpp` 60): `Lock` has the case, but eleven threads
  in `Infer` at once are too many for TLC.
* The literals of padding kernels are a matter of proof, not of a run.

## Not modelled

* In `launcher_global`, the branches for FullyConnected, SoftMax and the Reshape
  named `Predictions_Reshape`, and in `launcher_channel` those for SoftMax and
  Reshape: no kernel of the modelled bitstreams takes them.
* Failures of OpenCL calls (asserted by the code), wrong options, unreadable files.
* What is computed: convolutions, poolings and image preprocessing are arithmetic on
  floats. A tensor is the name of the layer that made it.
* `getTopNResults` hands the scores to the standard partial sort. Whose scores they
  are is `Classified`; a model of the rest would restate the library.
* LeNet and other early kernels, which the plugin does not launch, and the
  performance model, which takes no part in an inference.
* Of the inference engine: `Wait` with a time-out, `SetCompletionCallback` during the
  life of a request, the accessors of blobs and user data (they only test the busy
  flag).
* The rest of `src/dldt`: the vendored OpenVINO (graph passes, the CPU and GPU
  plugins and their libraries, XML parsers, test frameworks, the model optimizer).
  It makes up nearly all lines of the repository and is neither this program's own
  logic nor called by the plugin beyond what `Network` reads. The part of it
  modelled, the asynchronous requests, is where its concurrency is.
