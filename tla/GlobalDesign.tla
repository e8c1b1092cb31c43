---------------------------- MODULE GlobalDesign ----------------------------
(***************************************************************************)
(* The global-memory design: fpga_launcher from its MPI_Barrier on, and    *)
(* launcher_global, on every rank of the MPI job.                          *)
(*                                                                         *)
(* Each rank holds the whole tree of layers but only two bitstreams, one   *)
(* per FPGA.  A rank other than 0 first receives a layer's name, size and  *)
(* output from the rank before it.  Then it walks the whole tree with a    *)
(* queue: a layer that is in neither of its bitstreams (a remote layer)    *)
(* only passes its children on; a local one is launched when its parents   *)
(* have been visited, and put back otherwise; the output of the last local *)
(* layer goes to the next rank.  Kernels find their inputs by the indices  *)
(* of buffers that their parents left in the tree.                         *)
(*                                                                         *)
(* A kernel is launched and waited for in one step (enqueueTask, finish).  *)
(* A tensor is named by the layer that ought to produce it; a kernel that  *)
(* reads anything else than the tensors its layer needs yields Garbage.    *)
(*                                                                         *)
(* A definition ...Mutant is the next one with a plausible bug in it, that *)
(* some property must catch; no action uses it.                            *)
(***************************************************************************)
EXTENDS Integers, Sequences, FiniteSets, SequencesExt

CONSTANTS
  NumRanks,    \* com_sz
  Layer,       \* the layers of the tree
  Tree,        \* the tree of layers every rank builds (module LayerTree)
  Type,        \* the type of each layer
  Padded,      \* the convolutions with padding
  Inputs,      \* the layers each layer reads, in the order of its inputs
  Program,     \* Program[r][l]: get_program_num on rank r, 0 if remote
  SendsAdd,    \* the Eltwise layers whose names or model make them send
  LastLayer,   \* the last convolution
  Depth,       \* a number that grows from a layer to those it feeds (not in the code)
  Image,       \* the tensor of the normalised image
  Garbage,     \* what any other memory holds
  Unset,       \* an entry of buffers[] that is numbered but never created
  NoName,      \* no name received yet
  Unknown      \* a received name with bytes of the stack after it

Rank == 0 .. NumRanks - 1
Node == DOMAIN Tree
Root == 1

IsLayer(p) == Tree[p].kind = "layer"
LayerNode  == {p \in Node : IsLayer(p)}
DummyNode  == {p \in Node : Tree[p].kind = "dummy"}

(* The kernel of a node on a rank; an "anyName" node has none.             *)
get_program_num(r, p) == IF IsLayer(p) THEN Program[r][Tree[p].layer] ELSE 0
Remote == [r \in Rank |-> {p \in Node : get_program_num(r, p) = 0}]

Parents(p)  == ToSet(Tree[p].parents)
Children(p) == ToSet(Tree[p].children)

Tensor == Layer \cup {Image, Garbage}

ASSUME RankAssumption == NumRanks \in Nat \ {0}

ASSUME LayerAssumption ==
  /\ Type \in [Layer -> {"Convolution", "Pooling", "ScaleShift", "Eltwise",
                         "Concat", "Reshape"}]
  /\ Inputs \in [Layer -> Seq(Layer \cup {Image})]
  /\ Program \in [Rank -> [Layer -> 0 .. 2]]
  /\ Padded \subseteq Layer /\ SendsAdd \subseteq Layer

(* What module LayerTree shows of the tree: its addresses are positions,   *)
(* the root is a layer, and the parents of layers are layers.              *)
ASSUME TreeAssumption ==
  /\ Tree \in Seq([kind : {"layer", "dummy", "anyName"},
                   layer : Layer \cup {Tree[p].layer : p \in Node},
                   children : Seq(Node), parents : Seq(Node)])
  /\ Root \in LayerNode
  /\ \A p \in LayerNode : Tree[p].layer \in Layer
  /\ \A p \in LayerNode : \A k \in DOMAIN Tree[p].parents :
       Tree[p].parents[k] \in LayerNode

(* ... and every node is on one list of children, once, but for the root:  *)
(* on that of an earlier node, which is no dummy.                          *)
ASSUME ChildrenAssumption ==
  /\ \A p, q \in Node : \A i \in DOMAIN Tree[p].children, j \in DOMAIN Tree[q].children :
       /\ Tree[p].children[i] # Root
       /\ Tree[p].children[i] = Tree[q].children[j] => p = q /\ i = j
  /\ \A p \in Node \ {Root} : \E q \in Node \ DummyNode : q < p /\ p \in Children(q)

Message == [kind : {"name", "dims", "data"}, value : Tensor]

VARIABLES
  pc,          \* where each rank is
  queue,       \* q: the nodes to visit
  n,           \* n: how many more of them this level
  visited,     \* the nodes whose kernel has run
  outBuf,      \* layerOutBufferIndex of each node
  parentBuf,   \* parentOutBufferIndex of each node
  buffers,     \* the entries below buffer_index, and the tensors in them
  current,     \* the node whose output is being sent or read
  unsent,      \* the messages still to send for it
  received,    \* previous_l_name
  result,      \* the tensor the rank's results were computed from
  channel      \* channel[r]: messages from rank r to rank r + 1

tree_vars == <<visited, outBuf, parentBuf, buffers>>
vars == <<pc, queue, n, visited, outBuf, parentBuf, buffers, current,
          unsent, received, result, channel>>

(* layerOutBufferIndex before the launch.                                  *)
NoIndex == 0

Init ==
  /\ pc = [r \in Rank |-> "flash"]
  /\ queue = [r \in Rank |-> <<>>]
  /\ n = [r \in Rank |-> 0]
  /\ visited = [r \in Rank |-> {}]
  /\ outBuf = [r \in Rank |-> [p \in Node |-> NoIndex]]
  /\ parentBuf = [r \in Rank |-> [p \in Node |-> <<>>]]
  /\ buffers = [r \in Rank |-> <<>>]
  /\ current = [r \in Rank |-> Root]
  /\ unsent = [r \in Rank |-> <<>>]
  /\ received = [r \in Rank |-> NoName]
  /\ result = [r \in Rank |-> Garbage]
  /\ channel = [r \in Rank |-> <<>>]

-----------------------------------------------------------------------------
(* Start: the bitstreams are flashed, then all ranks meet in MPI_Barrier.  *)

Flash(r) ==
  /\ pc[r] = "flash"
  /\ pc' = [pc EXCEPT ![r] = "barrier"]
  /\ UNCHANGED <<queue, n, tree_vars, current, unsent, received, result, channel>>

(* launcher_global starts with the root in the queue.                      *)
StartWalk(r) ==
  /\ pc' = [pc EXCEPT ![r] = "walk"]
  /\ queue' = [queue EXCEPT ![r] = <<Root>>]
  /\ n' = [n EXCEPT ![r] = 1]

(* Rank 0 writes the image to buffer 0.                                    *)
BarrierFirst(r) ==
  /\ pc[r] = "barrier" /\ r = 0
  /\ \A s \in Rank : pc[s] # "flash"
  /\ buffers' = [buffers EXCEPT ![r] = <<Image>>]
  /\ parentBuf' = [parentBuf EXCEPT ![r][Root] = Append(@, 0)]
  /\ StartWalk(r)
  /\ UNCHANGED <<visited, outBuf, current, unsent, received, result, channel>>

BarrierOther(r) ==
  /\ pc[r] = "barrier" /\ r # 0
  /\ \A s \in Rank : pc[s] # "flash"
  /\ pc' = [pc EXCEPT ![r] = "recvName"]
  /\ UNCHANGED <<queue, n, tree_vars, current, unsent, received, result, channel>>

(* MPI_Recv of the name into char[50].  The sender does not send the NUL,  *)
(* so the string goes on with what the stack holds: nothing or anything.   *)
RecvName(r) ==
  /\ pc[r] = "recvName"
  /\ channel[r - 1] # <<>>
  /\ \E s \in {Head(channel[r - 1]).value, Unknown} :
       received' = [received EXCEPT ![r] = s]
  /\ channel' = [channel EXCEPT ![r - 1] = Tail(@)]
  /\ pc' = [pc EXCEPT ![r] = "recvDims"]
  /\ UNCHANGED <<queue, n, tree_vars, current, unsent, result>>

RecvDims(r) ==
  /\ pc[r] = "recvDims"
  /\ channel[r - 1] # <<>>
  /\ channel' = [channel EXCEPT ![r - 1] = Tail(@)]
  /\ pc' = [pc EXCEPT ![r] = "recvData"]
  /\ UNCHANGED <<queue, n, tree_vars, current, unsent, received, result>>

(* find_by_name(root, name, 0): the children of the node with the name.    *)
NamedChildren(s) == UNION {Children(p) : p \in {q \in LayerNode : Tree[q].layer = s}}

(* The data goes to buffer 0, whose index find_by_name gives to the        *)
(* children of the named layer; the root is given index 0 in any case.     *)
RecvData(r) ==
  /\ pc[r] = "recvData"
  /\ channel[r - 1] # <<>>
  /\ buffers' = [buffers EXCEPT ![r] = <<Head(channel[r - 1]).value>>]
  /\ channel' = [channel EXCEPT ![r - 1] = Tail(@)]
  /\ parentBuf' = [parentBuf EXCEPT ![r] =
       [p \in Node |-> IF p \in NamedChildren(received[r]) \cup {Root}
                       THEN Append(@[p], 0) ELSE @[p]]]
  /\ StartWalk(r)
  /\ UNCHANGED <<visited, outBuf, current, unsent, received, result>>

-----------------------------------------------------------------------------
(* The walk.  One step is one pass of the inner loop: it takes nodes from  *)
(* the queue until one is not a dummy, counting the dummies off n.         *)

IsFirstLive(q, k) == /\ q[k] \notin DummyNode
                     /\ \A j \in 1 .. k - 1 : q[j] \in DummyNode
HasLive(q)   == \E k \in DOMAIN q : IsFirstLive(q, k)
FirstLive(q) == CHOOSE k \in DOMAIN q : IsFirstLive(q, k)

Walking(r) == pc[r] = "walk" /\ n[r] > 0
At(r)      == queue[r][FirstLive(queue[r])]
Rest(r)    == SubSeq(queue[r], FirstLive(queue[r]) + 1, Len(queue[r]))
Left(r)    == n[r] - (FirstLive(queue[r]) - 1)

(* The walk goes on below node p, with queue q and count m.                *)
PassChildrenMutant(r, p, q, m) ==
  /\ queue' = [queue EXCEPT ![r] = q \o Tree[p].children]
  /\ n' = [n EXCEPT ![r] = m]

PassChildren(r, p, q, m) ==
  /\ queue' = [queue EXCEPT ![r] = q \o Tree[p].children]
  /\ n' = [n EXCEPT ![r] = m - 1]

NextLevel(r) ==
  /\ pc[r] = "walk" /\ n[r] <= 0
  /\ queue[r] # <<>>
  /\ n' = [n EXCEPT ![r] = Len(queue[r])]
  /\ UNCHANGED <<pc, queue, tree_vars, current, unsent, received, result, channel>>

(* The queue is empty: launcher_global returns no results.                 *)
WalkEnds(r) ==
  /\ pc[r] = "walk" /\ n[r] <= 0
  /\ queue[r] = <<>>
  /\ pc' = [pc EXCEPT ![r] = "done"]
  /\ UNCHANGED <<queue, n, tree_vars, current, unsent, received, result, channel>>

(* Only dummies are left: front() of an empty std::queue.                  *)
FrontOfEmpty(r) ==
  /\ Walking(r)
  /\ ~ HasLive(queue[r])
  /\ pc' = [pc EXCEPT ![r] = "undefined"]
  /\ UNCHANGED <<queue, n, tree_vars, current, unsent, received, result, channel>>

(* A remote layer, an "anyName" node, or a layer launched before.          *)
PassOn(r) ==
  /\ Walking(r) /\ HasLive(queue[r])
  /\ At(r) \in Remote[r] \cup visited[r]
  /\ PassChildren(r, At(r), Rest(r), Left(r))
  /\ UNCHANGED <<pc, tree_vars, current, unsent, received, result, channel>>

(* A Concat or a Reshape waits for all its parents; the other types count  *)
(* a remote parent as visited.                                             *)
StrictMutant(p) == TRUE
Strict(p) == Type[Tree[p].layer] \in {"Concat", "Reshape"}

ReadyMutant(r, p) ==
  Parents(p) = {} \/ Parents(p) \cap (visited[r] \cup Remote[r]) # {}

Ready(r, p) ==
  Parents(p) \subseteq visited[r] \cup (IF Strict(p) THEN {} ELSE Remote[r])

ToLaunch(r) ==
  /\ Walking(r) /\ HasLive(queue[r])
  /\ At(r) \notin Remote[r] \cup visited[r]

(* A layer that cannot be launched yet goes back to the end of the queue,  *)
(* and n does not change for it; but not a ScaleShift, whose branch has no *)
(* such line.                                                              *)
PutBackRestMutant(r, p)  == Rest(r)
PutBackTwiceMutant(r, p) == Append(queue[r], p)

PutBackQueue(r, p) ==
  IF Type[Tree[p].layer] = "ScaleShift" THEN Rest(r) ELSE Append(Rest(r), p)

(* A Reshape is never marked as visited.                                   *)
PutBack(r) ==
  /\ ToLaunch(r)
  /\ Ready(r, At(r)) => Type[Tree[At(r)].layer] = "Reshape"
  /\ queue' = [queue EXCEPT ![r] = PutBackQueue(r, At(r))]
  /\ n' = [n EXCEPT ![r] = Left(r)]
  /\ UNCHANGED <<pc, tree_vars, current, unsent, received, result, channel>>

(* The entries of buffers[] that a launch takes, the output of the kernel   *)
(* being tensor.  The code creates the output, the weights, the biases and *)
(* the padded input, but also counts an entry for each input of the kernel *)
(* and leaves it unset: the input is the output of an earlier launch.      *)
NewBuffersMutant(l, tensor) ==
  CASE Type[l] = "Pooling" -> <<tensor>>
    [] Type[l] = "Eltwise" -> <<tensor, Unset, Unset>>
    [] Type[l] = "Concat"  -> <<tensor, Unset, Unset, Unset, Unset>>
    [] Type[l] = "Convolution" /\ l \in Padded ->
         <<Garbage, tensor, Unset, Unset, Garbage, Garbage>>
    [] OTHER               -> <<tensor, Unset, Garbage, Garbage>>

NewBuffers(l, tensor) ==
  CASE Type[l] = "Pooling" -> <<tensor>>
    [] Type[l] = "Eltwise" -> <<tensor, Unset, Unset>>
    [] Type[l] = "Concat"  -> <<tensor, Unset, Unset, Unset, Unset>>
    [] Type[l] = "Convolution" /\ l \in Padded ->
         <<Garbage, tensor, Unset, Garbage, Garbage>>
    [] OTHER               -> <<tensor, Unset, Garbage, Garbage>>

(* Where among them its output is: layerOutBufferIndex is buffer_index     *)
(* before it is counted up.                                                *)
OutSlotMutant(l) == IF Type[l] = "Convolution" /\ l \in Padded THEN 2 ELSE 1
OutSlot(l) == IF Type[l] = "Convolution" /\ l \in Padded THEN 1 ELSE 0

Buffer(r, i) == buffers[r][i + 1]

(* A Concat or Eltwise kernel reads the outputs of its parents 0.. by      *)
(* their layerOutBufferIndex, the other kernels their own first            *)
(* parentOutBufferIndex.                                                   *)
Arity(l) == CASE Type[l] = "Concat" -> 4 [] Type[l] = "Eltwise" -> 2 [] OTHER -> 1
ByParents(l) == Type[l] \in {"Concat", "Eltwise"}

(* at() throws std::out_of_range when there is no such entry.              *)
HasArgumentsMutant(r, p) ==
  LET l == Tree[p].layer IN
    Arity(l) <= IF Type[l] = "Concat" THEN Len(Tree[p].parents) ELSE Len(parentBuf[r][p])

HasArguments(r, p) ==
  LET l == Tree[p].layer IN
    Arity(l) <= IF ByParents(l) THEN Len(Tree[p].parents) ELSE Len(parentBuf[r][p])

ArgumentMutant(r, p, k) ==
  Buffer(r, IF ByParents(Tree[p].layer)
            THEN outBuf[r][Tree[p].parents[1]]
            ELSE parentBuf[r][p][k])

Argument(r, p, k) ==
  Buffer(r, IF ByParents(Tree[p].layer)
            THEN outBuf[r][Tree[p].parents[k]]
            ELSE parentBuf[r][p][k])

(* What the kernel of layer l yields on arguments arg: a sum takes its two *)
(* inputs in either order.                                                 *)
Kernel(l, arg) ==
  IF \/ arg = Inputs[l]
     \/ Type[l] = "Eltwise" /\ arg = <<Inputs[l][2], Inputs[l][1]>>
  THEN l ELSE Garbage

Launchable(r) ==
  /\ ToLaunch(r)
  /\ Ready(r, At(r))
  /\ Type[Tree[At(r)].layer] # "Reshape"

(* The exception leaves main, which returns 1 without MPI_Finalize.        *)
MissingArgument(r) ==
  /\ Launchable(r)
  /\ ~ HasArguments(r, At(r))
  /\ pc' = [pc EXCEPT ![r] = "failed"]
  /\ UNCHANGED <<queue, n, tree_vars, current, unsent, received, result, channel>>

(* Which launches are followed by a send: a Concat of the second bitstream *)
(* unless the rank is the last one, an Eltwise of the second bitstream     *)
(* that its model names.                                                   *)
Sends(r, p) ==
  LET l == Tree[p].layer IN
    /\ get_program_num(r, p) = 2
    /\ \/ Type[l] = "Concat" /\ r < NumRanks - 1
       \/ Type[l] = "Eltwise" /\ l \in SendsAdd

(* The messages: the name of the layer, the size of its output, the output.*)
MessagesShortMutant(l, tensor) ==
  <<[kind |-> "name", value |-> l], [kind |-> "data", value |-> tensor]>>

MessagesMutant(l, tensor) ==
  <<[kind |-> "name", value |-> l], [kind |-> "data", value |-> tensor],
    [kind |-> "dims", value |-> l]>>

Messages(l, tensor) ==
  <<[kind |-> "name", value |-> l], [kind |-> "dims", value |-> l],
    [kind |-> "data", value |-> tensor]>>

(* Allocate the buffers, tell the children the index of the output, run    *)
(* the kernel.  Then send the output, read the scores if it was the last   *)
(* convolution, or go on.                                                  *)
Launch(r) ==
  LET p   == At(r)
      l   == Tree[p].layer
      out == Len(buffers[r]) + OutSlot(l)
      arg == [k \in 1 .. Arity(l) |-> Argument(r, p, k)]
  IN  /\ Launchable(r)
      /\ HasArguments(r, p)
      /\ outBuf' = [outBuf EXCEPT ![r][p] = out]
      /\ parentBuf' = [parentBuf EXCEPT ![r] =
           [c \in Node |-> IF c \in Children(p)
                           THEN Append(@[c], out) ELSE @[c]]]
      /\ buffers' = [buffers EXCEPT ![r] = @ \o NewBuffers(l, Kernel(l, arg))]
      /\ visited' = [visited EXCEPT ![r] = @ \cup {p}]
      /\ current' = [current EXCEPT ![r] = p]
      /\ IF Sends(r, p)
         THEN /\ pc' = [pc EXCEPT ![r] = "send"]
              /\ unsent' = [unsent EXCEPT ![r] = Messages(l, Kernel(l, arg))]
              /\ queue' = [queue EXCEPT ![r] = Rest(r)]
              /\ n' = [n EXCEPT ![r] = Left(r)]
         ELSE IF l = LastLayer
         THEN /\ pc' = [pc EXCEPT ![r] = "read"]
              /\ UNCHANGED <<queue, n, unsent>>
         ELSE /\ PassChildren(r, p, Rest(r), Left(r))
              /\ UNCHANGED <<pc, unsent>>
      /\ UNCHANGED <<received, result, channel>>

(* The scores are read and ranked, and the function returns: the rest of   *)
(* the tree is not walked.                                                 *)
ReadScores(r) ==
  /\ pc[r] = "read"
  /\ result' = [result EXCEPT ![r] = Buffer(r, outBuf[r][current[r]])]
  /\ pc' = [pc EXCEPT ![r] = "done"]
  /\ UNCHANGED <<queue, n, tree_vars, current, unsent, received, channel>>

-----------------------------------------------------------------------------
(* Three blocking MPI_Send calls with one tag.                             *)

Send(r) ==
  /\ pc[r] = "send" /\ r + 1 \in Rank
  /\ channel' = [channel EXCEPT ![r] = Append(@, Head(unsent[r]))]
  /\ unsent' = [unsent EXCEPT ![r] = Tail(@)]
  /\ pc' = [pc EXCEPT ![r] = "sending"]
  /\ UNCHANGED <<queue, n, tree_vars, current, received, result>>

(* There is no rank + 1: MPI aborts the job.                               *)
SendToNobody(r) ==
  /\ pc[r] = "send" /\ r + 1 \notin Rank
  /\ pc' = [pc EXCEPT ![r] = "failed"]
  /\ UNCHANGED <<queue, n, tree_vars, current, unsent, received, result, channel>>

AfterSend(r) ==
  /\ pc[r] = "sending"
  /\ IF unsent[r] # <<>>
     THEN pc' = [pc EXCEPT ![r] = "send"] /\ UNCHANGED <<queue, n>>
     ELSE /\ pc' = [pc EXCEPT ![r] = "walk"]
          /\ PassChildren(r, current[r], queue[r], n[r])
  /\ UNCHANGED <<tree_vars, current, unsent, received, result, channel>>

(* MPI_Send returns when the message has been received, or before that if  *)
(* MPI buffers it, which nobody may rely on.                               *)
SendMatched(r)  == channel[r] = <<>> /\ AfterSend(r)
SendBuffered(r) == channel[r] # <<>> /\ AfterSend(r)

(* A process that ends without MPI_Finalize makes mpirun end the others.   *)
Abort(r) ==
  /\ pc[r] \notin {"done", "failed", "aborted", "undefined"}
  /\ \E s \in Rank : pc[s] = "failed"
  /\ pc' = [pc EXCEPT ![r] = "aborted"]
  /\ UNCHANGED <<queue, n, tree_vars, current, unsent, received, result, channel>>

-----------------------------------------------------------------------------
Step(r) ==
  \/ Flash(r) \/ BarrierFirst(r) \/ BarrierOther(r)
  \/ RecvName(r) \/ RecvDims(r) \/ RecvData(r)
  \/ NextLevel(r) \/ WalkEnds(r) \/ FrontOfEmpty(r)
  \/ PassOn(r) \/ PutBack(r)
  \/ MissingArgument(r) \/ Launch(r) \/ ReadScores(r)
  \/ Send(r) \/ SendToNobody(r) \/ SendMatched(r)

Next == \E r \in Rank : Step(r) \/ SendBuffered(r) \/ Abort(r)

(* A rank runs as long as it can, and mpirun ends a broken job.            *)
Fairness == \A r \in Rank : WF_vars(Step(r)) /\ WF_vars(Abort(r))

Spec == Init /\ [][Next]_vars /\ Fairness

-----------------------------------------------------------------------------
(* The network and its cut, for which the design works.                    *)

ASSUME NameAssumption ==
  /\ NoName \notin Layer \cup {Unknown} /\ Unknown \notin Layer
  /\ Garbage # LastLayer /\ Unset \notin Tensor

(* What the kernel of a node should be given, in the order it is given.    *)
Feed(p) ==
  IF p = Root THEN <<Image>>
  ELSE [k \in 1 .. Arity(Tree[p].layer) |-> Tree[Tree[p].parents[k]].layer]

(* A layer has one node, whose parents are the inputs of the layer; a      *)
(* layer with one input is below its parent in the tree.  (Module          *)
(* LayerTree: OneNodePerLayer, ParentsComplete, ConcatInputsInOrder.)      *)
ASSUME InputsAssumption ==
  /\ \A l \in Layer : \E p \in LayerNode : Tree[p].layer = l
  /\ \A p, q \in LayerNode : Tree[p].layer = Tree[q].layer => p = q
  /\ \A p \in LayerNode : Type[Tree[p].layer] # "Reshape" =>
       LET l == Tree[p].layer IN
         /\ Kernel(l, Feed(p)) = l /\ ToSet(Inputs[l]) = ToSet(Feed(p))
         /\ IF p = Root THEN ~ ByParents(l) /\ Parents(p) = {}
            ELSE Arity(l) <= Len(Tree[p].parents)
         /\ p # Root /\ ~ ByParents(l) =>
              \E q \in LayerNode : Tree[p].parents = <<q>> /\ p \in Children(q)

(* A layer is in the bitstreams of one rank, the root in those of rank 0;  *)
(* a rank sends one output, and what the next rank needs of other ranks is *)
(* that output.                                                            *)
ASSUME CutAssumption ==
  /\ \A l \in Layer : \A r, s \in Rank : Program[r][l] # 0 /\ Program[s][l] # 0 => r = s
  /\ \A r \in Rank : Root \notin Remote[r] => r = 0
  /\ \A r \in Rank : \A p, q \in LayerNode : Sends(r, p) /\ Sends(r, q) => p = q
  /\ \A r \in Rank : \A p \in LayerNode \ Remote[r] : \A q \in Parents(p) \cap Remote[r] :
       Type[Tree[p].layer] # "Reshape" => r - 1 \in Rank /\ Sends(r - 1, q)

(* On its rank, the last layer is fed by every other layer, directly or    *)
(* through layers of the rank.                                             *)
LocalTo(r) == {p \in LayerNode \ Remote[r] : Type[Tree[p].layer] # "Reshape"}

ASSUME LastAssumption ==
  \A r \in Rank : \A S \in SUBSET LocalTo(r) :
    (\E p \in S : Tree[p].layer = LastLayer)
      /\ (\A p \in S : Parents(p) \cap LocalTo(r) \subseteq S)
    => S = LocalTo(r)

(* Layers do not wait for one another in a circle, and every layer is      *)
(* below one of its parents in the tree.  (Module LayerTree: ParentsAbove; *)
(* parse_child appends the node to the children of its first parent.)      *)
ASSUME OrderAssumption ==
  /\ Depth \in [Layer -> Nat]
  /\ \A p \in LayerNode : \A q \in Parents(p) :
       Depth[Tree[q].layer] < Depth[Tree[p].layer]
  /\ \A p \in LayerNode \ {Root} : \E q \in Parents(p) : p \in Children(q)

(* A Concat is in a bitstream of the rank of its branches.  A Reshape has  *)
(* no kernel before the last layer, whose rank keeps the scores.  Every    *)
(* rank but the last has an output to send.                                *)
ASSUME WaitAssumption ==
  /\ \A r \in Rank : \A p \in LayerNode \ Remote[r] :
       LET l == Tree[p].layer IN
         /\ Type[l] = "Concat" => Parents(p) \cap Remote[r] = {}
         /\ Type[l] = "Reshape" =>
              \E q \in LocalTo(r) : /\ Parents(p) = {q} /\ ~ Sends(r, q)
                                   /\ Tree[q].layer = LastLayer
  /\ \A r \in Rank : r + 1 \in Rank => \E p \in LayerNode : Sends(r, p)

-----------------------------------------------------------------------------
(* Properties.                                                             *)

States == {"flash", "barrier", "recvName", "recvDims", "recvData", "walk",
           "send", "sending", "read", "done", "failed", "aborted", "undefined"}

(* Every variable has its type.                                            *)
TypeOK ==
  /\ pc \in [Rank -> States]
  /\ queue \in [Rank -> Seq(Node)]
  /\ n \in [Rank -> Int]
  /\ visited \in [Rank -> SUBSET LayerNode]
  /\ outBuf \in [Rank -> [Node -> Nat]]
  /\ parentBuf \in [Rank -> [Node -> Seq(Nat)]]
  /\ buffers \in [Rank -> Seq(Tensor \cup {Unset})]
  /\ current \in [Rank -> Node]
  /\ unsent \in [Rank -> Seq(Message)]
  /\ received \in [Rank -> Tensor \cup {NoName, Unknown}]
  /\ result \in [Rank -> Tensor]
  /\ channel \in [Rank -> Seq(Message)]

(* Every kernel that has run read the outputs of exactly the layers that   *)
(* feed its layer, in order: the indices that launches leave in the tree,  *)
(* the default index 0 of a remote parent, the order of parents the        *)
(* duplicates gave, and the tensor received into buffer 0 all agree, and   *)
(* no later launch overwrites an output.                                   *)
TensorsRight ==
  \A r \in Rank : \A p \in visited[r] :
    Buffer(r, outBuf[r][p]) = Tree[p].layer

(* Every index that the tree holds on a rank whose walk has begun, also the *)
(* default one, is that of a buffer that has been created: it is below     *)
(* buffer_index and none of the entries that are counted and left unset.   *)
(* So no kernel gets an unset pointer of buffers[], nor does the reading   *)
(* of an output.                                                           *)
Created(r, i) == i < Len(buffers[r]) /\ Buffer(r, i) # Unset

BuffersCreated ==
  \A r \in Rank : pc[r] \in {"walk", "send", "sending", "read", "done"} =>
    \A p \in Node :
      /\ Created(r, outBuf[r][p])
      /\ \A k \in DOMAIN parentBuf[r][p] : Created(r, parentBuf[r][p][k])

(* The walk never takes the front of an empty queue, though dummies are    *)
(* dropped without looking whether anything follows them.                  *)
NothingUndefined == \A r \in Rank : pc[r] # "undefined"

(* A kernel finds its arguments, unless the name of the received layer was *)
(* spoilt.                                                                 *)
ArgumentsFound ==
  \A r \in Rank : pc[r] = "failed" => received[r] = Unknown

(* A layer node waits in the queue at most once, and never after its       *)
(* launch: putting back does not multiply it, so no layer runs twice.      *)
QueuedOnce ==
  \A r \in Rank : pc[r] = "walk" =>
    \A j, k \in DOMAIN queue[r] :
      queue[r][j] = queue[r][k] => j = k /\ queue[r][j] \notin visited[r]

(* A launch takes at most five buffers, and no layer takes them twice: the *)
(* length 500 of the array has to be compared with five times the layers.  *)
FiveBuffersPerLaunch ==
  \A r \in Rank : Len(buffers[r]) <= 1 + 5 * Cardinality(visited[r])

(* One tag for three messages: each receive meets the message meant for it.*)
ReceivesMatch ==
  \A r \in Rank \ {0} : channel[r - 1] # <<>> =>
    /\ pc[r] \in {"flash", "barrier", "recvName"} => Head(channel[r - 1]).kind = "name"
    /\ pc[r] = "recvDims" => Head(channel[r - 1]).kind = "dims"
    /\ pc[r] = "recvData" => Head(channel[r - 1]).kind = "data"

(* A rank whose walk is over, in whichever way it ends, has launched every *)
(* local layer: none is stranded in the queue, dropped, or behind the last *)
(* convolution, except the Reshape after it.                               *)
AllLaunched ==
  \A r \in Rank : pc[r] \in {"done", "undefined"} =>
    \A p \in LayerNode :
      p \in visited[r] \cup Remote[r] \/ Type[Tree[p].layer] = "Reshape"

(* The walk never goes round and round: as long as something but dummies   *)
(* waits in the queue, one of the nodes that wait can be passed on or      *)
(* launched, for none waits for itself, for a layer that nobody tells this *)
(* rank of, or for one behind it.                                          *)
Passable(r, p) ==
  \/ p \in Remote[r] \cup visited[r]
  \/ Ready(r, p) /\ Type[Tree[p].layer] # "Reshape"

Spins(r) ==
  /\ pc[r] = "walk" /\ HasLive(queue[r])
  /\ \A k \in DOMAIN queue[r] :
       queue[r][k] \in DummyNode \/ ~ Passable(r, queue[r][k])

WalkGoesOn == \A r \in Rank : ~ Spins(r)

(* The ranks never wait for one another in a circle, nor for a message     *)
(* that is never sent or never received, even if MPI buffers nothing: as   *)
(* long as a rank has not ended, some rank can go on.  (If one has failed, *)
(* mpirun goes on.)                                                        *)
Ended(r) == pc[r] \in {"done", "failed", "aborted", "undefined"}

Waits(r) ==
  \/ pc[r] = "barrier" /\ \E s \in Rank : pc[s] = "flash"
  \/ pc[r] \in {"recvName", "recvDims", "recvData"} /\ channel[r - 1] = <<>>
  \/ pc[r] = "sending" /\ channel[r] # <<>>

NoDeadlock ==
  (\A r \in Rank : Waits(r) \/ Spins(r) \/ Ended(r)) =>
    (\A r \in Rank : Ended(r)) \/ (\E r \in Rank : pc[r] = "failed")

(* Every rank ends, or the job is aborted: nobody walks for ever around a  *)
(* layer that is never ready, or waits for ever to send or to receive.     *)
(* After front() of an empty queue anything may happen.                    *)
EveryRankEnds == <>(\A r \in Rank : Ended(r))

(* The plugin launches the kernels on several FPGAs with MPI: no rank fails.*)
NoRankFails == \A r \in Rank : pc[r] # "failed"

(* If no received name is spoilt, some rank returns the classification.    *)
NamesClean == \A r \in Rank : received[r] # Unknown
Classified == [](NamesClean) => <>(\E r \in Rank : result[r] = LastLayer)

(* The ranks together compute each layer as an inference on one machine    *)
(* would: module Inference, where a layer's output is the one its kernel   *)
(* left on the rank it is local to.                                        *)
Local  == {l \in Layer : Type[l] # "Reshape" /\ \E r \in Rank : Program[r][l] # 0}
Home   == [l \in Local |-> CHOOSE r \in Rank : Program[r][l] # 0]
NodeOf == [l \in Local |-> CHOOSE p \in LayerNode : Tree[p].layer = l]

OutputOf(l) == IF NodeOf[l] \in visited[Home[l]]
               THEN Buffer(Home[l], outBuf[Home[l]][NodeOf[l]]) ELSE NoName

I == INSTANCE Inference WITH
       Layer    <- Local,
       Feeds    <- [l \in Local |-> {Inputs[l][k] : k \in DOMAIN Inputs[l]} \ {Image}],
       NoTensor <- NoName,
       output   <- [l \in Local |-> OutputOf(l)],
       answered <- \E r \in Rank : result[r] = LastLayer

RefinesInference == I!Spec
=============================================================================
