------------------------------- MODULE MCMoods ------------------------------
(* The sequential parts of the mood system side by side: the graph, the frames of a mood, *)
(* the search and the conversions they use, and the queue of the study code.  A behaviour *)
(* follows one of them; the others stay as they are, on their smallest input.             *)
EXTENDS MoodGraph, FrameConfig, FileSearch, Utils, MoodQueue, TLC

CONSTANTS BASE, HAPPY, PEACE, SAD, LONG

VARIABLE followed

\* BASE and the others in a row, and HAPPY and PEACE the other way round, too.
SomePairs == {<<BASE, HAPPY>>, <<HAPPY, PEACE>>, <<PEACE, HAPPY>>, <<PEACE, SAD>>}
RelsOver == {2}
\* A number that does not fit a byte.
MCNumbers == {260}

mcVars == <<followed, vars, frameVars, searchVars, utilsVars, queueVars>>

MCInit ==
  /\ followed \in {"graph", "frame", "search", "utils", "queue"}
  /\ Init /\ QueueInit
  /\ FrameInit /\ (followed # "frame" => present = {} /\ \A g \in Groups : counts[g] = 0)
  /\ SearchInit /\ (followed # "search" => size = 0)
  /\ UtilsInit /\ (followed # "utils" => str = <<>> /\ faces = <<>>)

Follow(part, A, others) == followed = part /\ A /\ UNCHANGED <<followed, others>>

MCNext ==
  \/ Follow("graph", Next, <<frameVars, searchVars, utilsVars, queueVars>>)
  \/ Follow("frame", FrameNext, <<vars, searchVars, utilsVars, queueVars>>)
  \/ Follow("search", SearchNext, <<vars, frameVars, utilsVars, queueVars>>)
  \/ Follow("utils", UtilsNext, <<vars, frameVars, searchVars, queueVars>>)
  \/ Follow("queue", QueueNext, <<vars, frameVars, searchVars, utilsVars>>)

MCSpec == MCInit /\ [][MCNext]_mcVars

\* The state of each part has its type.
TypesOK == TypeOK /\ FrameTypeOK /\ QueueTypeOK

\* The helpers of wp_utils.c find what they look for: the places of a text in a file, the
\* first number of a text, the largest face.
HelpersRight == FoundInOrder /\ FoundBeforeTheEnd /\ FirstInt /\ LargestFace
=============================================================================
