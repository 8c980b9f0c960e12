--------------------------- MODULE DatabaseFiles ---------------------------
(***************************************************************************)
(* Moving and removing the files of a database: File::moveFiles and        *)
(* removeFiles (util/file.cpp) as Database calls them with its paths and   *)
(* extra files (core/database_file.cpp).                                   *)
(*                                                                         *)
(* A step is one system call.  The program may be killed between any two,  *)
(* and a call may fail.  The database is closed, as the header asks.       *)
(***************************************************************************)
EXTENDS Naturals, Sequences, FiniteSets

CONSTANTS
    Paths,          \* the files of a database in the order of getPaths
    MaxCalls        \* BOUND: calls of moveFiles and removeFiles

Files == {Paths[i] : i \in DOMAIN Paths}

ASSUME FilesAssumption ==
    /\ Paths \in Seq(Files)
    /\ \A i, j \in DOMAIN Paths : i # j => Paths[i] # Paths[j]
    /\ MaxCalls \in Nat

VARIABLES
    source,     \* the files at the path of the database
    dest,       \* dest[f]: the directory has none, another, or a link to the moved
    at,         \* the system call that comes next
    index,      \* of the path it is for
    recovers,
    calls,      \* calls so far
    data,       \* history: the files that the database consists of
    answer,     \* history: what the last call answered
    risked      \* history: access has failed on a file that is there, or moveFiles
                \* was called again after a kill that left the source in part

vars == <<source, dest, at, index, recovers, calls, data, answer, risked>>

Places == {"idle", "look", "clear", "link", "recover", "remove", "delete", "killed"}

TypeOK ==
    /\ source \subseteq Files /\ data \subseteq Files /\ recovers \subseteq Files
    /\ dest \in [Files -> {"none", "another", "moved"}]
    /\ at \in Places /\ index \in 1 .. Len(Paths) + 1 /\ calls \in 0 .. MaxCalls
    /\ answer \in {"none", "yes", "no"} /\ risked \in BOOLEAN
    /\ \A f \in recovers : dest[f] = "moved"

Init ==
    /\ source \in SUBSET Files /\ data = source
    /\ dest \in [Files -> {"none", "another"}]
    /\ at = "idle" /\ index = 1 /\ recovers = {} /\ calls = 0
    /\ answer = "none" /\ risked = FALSE

File == Paths[index]

More == index <= Len(Paths)

Goes(place, i) == at' = place /\ index' = i

Returns(what) == Goes("idle", 1) /\ answer' = what /\ recovers' = {}

-----------------------------------------------------------------------------
(* Calls.                                                                  *)

Calls(place) ==
    /\ calls < MaxCalls /\ answer # "yes"
    /\ at \in {"idle", "killed"}
    /\ calls' = calls + 1
    /\ Goes(place, 1) /\ recovers' = {} /\ answer' = "none"
    /\ UNCHANGED <<source, dest>>

MoveFiles ==
    /\ Calls("look") /\ UNCHANGED data
    /\ risked' = (risked \/ ~ data \subseteq source)

\* The directory cannot be made.
NoDirectory ==
    /\ at = "look" /\ index = 1
    /\ Returns("no")
    /\ UNCHANGED <<source, dest, calls, data, risked>>

RemoveFiles == Calls("delete") /\ data' = {} /\ UNCHANGED risked

-----------------------------------------------------------------------------
(* The first loop of moveFiles: a link of each file.                       *)

Look ==
    /\ at = "look" /\ More /\ File \in source
    /\ Goes("clear", index)
    /\ UNCHANGED <<source, dest, recovers, calls, data, answer, risked>>

\* Also when access fails: isExists answers false then.
Skip ==
    /\ at = "look" /\ More
    /\ Goes("look", index + 1)
    /\ risked' = (risked \/ File \in source)
    /\ UNCHANGED <<source, dest, recovers, calls, data, answer>>

\* Seeded fault: each file is removed as soon as it has its link: SomewhereWhole.
FaultOneByOne ==
    /\ at = "link"
    /\ dest' = [dest EXCEPT ![File] = "moved"] /\ source' = source \ {File}
    /\ recovers' = recovers \cup {File} /\ Goes("look", index + 1)
    /\ UNCHANGED <<calls, data, answer, risked>>

\* What was at the new path goes.
Clear ==
    /\ at = "clear"
    /\ dest' = [dest EXCEPT ![File] = "none"] /\ Goes("link", index)
    /\ UNCHANGED <<source, recovers, calls, data, answer, risked>>

Link ==
    /\ at = "link"
    /\ dest' = [dest EXCEPT ![File] = "moved"] /\ recovers' = recovers \cup {File}
    /\ Goes("look", index + 1)
    /\ UNCHANGED <<source, calls, data, answer, risked>>

ClearOrLinkFails ==
    /\ at \in {"clear", "link"}
    /\ Goes("recover", 1)
    /\ UNCHANGED <<source, dest, recovers, calls, data, answer, risked>>

AllLinked ==
    /\ at = "look" /\ ~ More
    /\ Goes("remove", 1)
    /\ UNCHANGED <<source, dest, recovers, calls, data, answer, risked>>

-----------------------------------------------------------------------------
(* The other loops.                                                        *)

Ending == at \in {"remove", "delete"}

Remove ==
    /\ Ending /\ More
    /\ source' = source \ {File} /\ Goes(at, index + 1)
    /\ UNCHANGED <<dest, recovers, calls, data, answer, risked>>

\* removeFiles stops.  moveFiles does not look at it.
RemoveFails ==
    /\ Ending /\ More /\ File \in source
    /\ Returns(IF at = "remove" THEN "yes" ELSE "no")
    /\ UNCHANGED <<source, dest, calls, data, risked>>

Removed ==
    /\ Ending /\ ~ More
    /\ Returns("yes")
    /\ UNCHANGED <<source, dest, calls, data, risked>>

\* Seeded fault: whether the links could be made is not told: AnswerIsTrue.
FaultToldYes == "yes"

AfterRecovery == "no"

\* Whether the link can be removed is not looked at.
Recover ==
    /\ at = "recover"
    /\ IF recovers = {}
       THEN Returns(AfterRecovery) /\ UNCHANGED dest
       ELSE \E f \in recovers :
              /\ recovers' = recovers \ {f}
              /\ dest' = [dest EXCEPT ![f] = "none"] \/ UNCHANGED dest
              /\ UNCHANGED <<at, index, answer>>
    /\ UNCHANGED <<source, calls, data, risked>>

Kill ==
    /\ at \notin {"idle", "killed"}
    /\ Goes("killed", 1) /\ recovers' = {}
    /\ UNCHANGED <<source, dest, calls, data, answer, risked>>

Next ==
    \/ MoveFiles \/ NoDirectory \/ RemoveFiles \/ Look \/ Skip \/ Clear \/ Link
    \/ ClearOrLinkFails \/ AllLinked \/ Remove \/ RemoveFails \/ Removed
    \/ Recover \/ Kill

Spec == Init /\ [][Next]_vars

-----------------------------------------------------------------------------
(* Properties.                                                             *)

Moved == {f \in Files : dest[f] = "moved"}

\* "This interface can make sure all of your data is in source or destination"
\* (WCTDatabase+File.h), wherever the program is killed, whatever system call
\* fails and however often the call is repeated, as long as the program does not
\* repeat it over what a killed call had begun to remove, and access answers
\* truly (moveFiles).
SomewhereWhole == ~ risked => data \subseteq source \/ data \subseteq Moved

\* On the same terms YES tells where the data is, and NO that it has not moved.
AnswerIsTrue ==
    ~ risked =>
        /\ answer = "yes" => data \subseteq Moved
        /\ answer = "no"  => data \subseteq source
=============================================================================
