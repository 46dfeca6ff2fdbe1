---------------------------- MODULE MCDeployment ----------------------------
(***************************************************************************)
(* Instances of Deployment: three small graphs, every way of deploying     *)
(* them, every damage, and every allocation that can fail.                 *)
(***************************************************************************)
EXTENDS Deployment

Tensor(role, bytes, class, at) ==
    [role |-> role, bytes |-> bytes, class |-> class, offset |-> at, nonzero |-> TRUE]

Text == [metadata |-> 61, profile |-> 130, strings |-> 23]

\* One input and one output in the arena; two weights, the first of 20 bytes,
\* so that the second needs padding.
Small ==
    [ tensors |-> << Tensor("WEIGHT", 20, "WEIGHT", 0), Tensor("INPUT", 16, "ARENA", 0),
                     Tensor("WEIGHT", 36, "WEIGHT", 0), Tensor("OUTPUT", 16, "ARENA", 16) >>,
      nodes |-> 1, specs |-> 2, outputs |-> <<4>>, channels |-> <<>>, protected |-> -1,
      scratch |-> 0, protectionScratch |-> 0, arena |-> 32, text |-> Text ]

\* Two inputs, one external; two outputs, listed against the order of their ids,
\* the first external; quantized and protected, with scratch for both.
Multi ==
    [ tensors |-> << Tensor("WEIGHT", 18, "WEIGHT", 0), Tensor("INPUT", 16, "ARENA", 0),
                     Tensor("INPUT", 16, "EXTERNAL", 0), Tensor("OUTPUT", 16, "ARENA", 16),
                     Tensor("OUTPUT", 8, "EXTERNAL", 0) >>,
      nodes |-> 6, specs |-> 9, outputs |-> <<5, 4>>, channels |-> <<3, 1>>, protected |-> 2,
      scratch |-> 64, protectionScratch |-> 48, arena |-> 32, text |-> Text ]

\* The same outputs in the order of their ids, nothing in the arena, no weights.
Plain ==
    [ tensors |-> << Tensor("INPUT", 16, "EXTERNAL", 0), Tensor("INPUT", 16, "EXTERNAL", 0),
                     Tensor("OUTPUT", 16, "EXTERNAL", 0), Tensor("OUTPUT", 8, "EXTERNAL", 0) >>,
      nodes |-> 2, specs |-> 2, outputs |-> <<3, 4>>, channels |-> <<>>, protected |-> 0,
      scratch |-> 16, protectionScratch |-> 0, arena |-> 0, text |-> Text ]

MCSectionLists == {Model!SectionsOf(graph) : graph \in {Small, Multi, Plain}}

Ways == {"library"} \cup Model!BlobWays \cup Model!InlineWays
Deploy(graphs, ways, damages, fails) ==
    [graph : graphs, way : ways, damage : damages, fail : fails]

\* What the inline generator does with a record from outside a table depends on
\* bytes that are not modelled, so it gets the damages that leave the tables whole.
MCDeployments ==
    Deploy({Small, Multi, Plain}, Ways, {"none"}, {"none"})
      \cup Deploy({Small}, {"library"} \cup Model!BlobWays, Model!Damages, {"none"})
      \cup Deploy({Small}, Model!InlineWays,
                  {"magic", "byte", "fewer sections", "checksum type", "short header"}, {"none"})
      \cup Deploy({Small}, {"library"}, {"none"},
                  Model!LoadBlocks \cup {"model", "arena"})
      \cup Deploy({Multi}, {"library"}, {"none"}, {"counts", "scratch"})
      \cup Deploy({Multi}, Ways \ {"library"}, {"none"}, {"ctx", "output_ids", "weights"})

\* The wrapper with external weights, on its own.
ExternalDeployments == Deploy({Small}, {"blobExternal"}, {"none"}, {"none"})
=============================================================================
