------------------------------ MODULE RobotsMatcher ------------------------------
(***************************************************************************)
(* robotsPatternMatches of src/scraper/fetch.ts: does a robots.txt rule    *)
(* apply to a path.  The code backtracks over one remembered star; each    *)
(* turn of its loops is a step here, for every pattern and path up to a    *)
(* length, against the definition of a match by RFC 9309.                  *)
(***************************************************************************)
EXTENDS Integers, Sequences, SequencesExt

CONSTANTS
    Letter,      \* octets of a path
    MaxPattern,  \* bound: length of a pattern
    MaxPath      \* bound: length of a path

ASSUME RobotsMatcherAssumption ==
    MaxPattern \in Nat /\ MaxPath \in Nat /\ Letter \cap {"*", "$"} = {}

VARIABLE glob    \* pattern, path and the locals of robotsPatternMatches

PatternOctet == Letter \cup {"*", "$"}

EndAnchored(pattern) == pattern # <<>> /\ Last(pattern) = "$"

\* A rule without $ is a prefix: it ends in an implicit star.
Body(pattern) == IF EndAnchored(pattern) THEN Front(pattern) ELSE Append(pattern, "*")

Glob == [pattern : BoundedSeq(PatternOctet, MaxPattern), path : BoundedSeq(PatternOctet \ {"*"}, MaxPath),
         patternIndex : 0..(MaxPattern + 1), pathIndex : 0..MaxPath,
         latestStar : -1..MaxPattern, latestStarMatch : 0..MaxPath,
         verdict : {"none", "matches", "differs"}]

MatcherTypeOK == glob \in Glob

MatcherInit ==
    \E pattern \in BoundedSeq(PatternOctet, MaxPattern), path \in BoundedSeq(PatternOctet \ {"*"}, MaxPath) :
        glob = [pattern |-> pattern, path |-> path, patternIndex |-> 0, pathIndex |-> 0,
                latestStar |-> -1, latestStarMatch |-> 0, verdict |-> "none"]
-------------------------------------------------------------------------------
InPath == glob.verdict = "none" /\ glob.pathIndex < Len(glob.path)

\* Where patternIndex stands in the body: an octet of the rule, or "end".
Here == IF glob.patternIndex < Len(Body(glob.pattern))
        THEN Body(glob.pattern)[glob.patternIndex + 1] ELSE "end"

SameOctet == Here # "*" /\ Here = glob.path[glob.pathIndex + 1]

MatchOctet ==
    /\ InPath
    /\ SameOctet
    /\ glob' = [glob EXCEPT !.patternIndex = @ + 1, !.pathIndex = @ + 1]

RememberStar ==
    /\ InPath
    /\ Here = "*"
    /\ glob' = [glob EXCEPT !.latestStar = glob.patternIndex, !.latestStarMatch = glob.pathIndex,
                            !.patternIndex = @ + 1]

\* Mutant: the star never takes more than it first took.
X_Backtrack ==
    /\ InPath
    /\ Here # "*" /\ ~SameOctet
    /\ glob.latestStar >= 0
    /\ glob' = [glob EXCEPT !.verdict = "differs"]

\* The latest star takes one octet more.
Backtrack ==
    /\ InPath
    /\ Here # "*" /\ ~SameOctet
    /\ glob.latestStar >= 0
    /\ glob' = [glob EXCEPT !.patternIndex = glob.latestStar + 1,
                            !.latestStarMatch = @ + 1, !.pathIndex = glob.latestStarMatch + 1]

Mismatch ==
    /\ InPath
    /\ Here # "*" /\ ~SameOctet
    /\ glob.latestStar < 0
    /\ glob' = [glob EXCEPT !.verdict = "differs"]

\* The path is used up: what is left of the rule must be stars.
FinishMatch ==
    /\ glob.verdict = "none"
    /\ glob.pathIndex = Len(glob.path)
    /\ glob' = IF Here = "*" THEN [glob EXCEPT !.patternIndex = @ + 1]
               ELSE [glob EXCEPT !.verdict = IF Here = "end" THEN "matches" ELSE "differs"]

MatcherNext == MatchOctet \/ RememberStar \/ Backtrack \/ Mismatch \/ FinishMatch
MatcherSpec == MatcherInit /\ [][MatcherNext]_glob
-------------------------------------------------------------------------------
\* Matches[i, j]: the body from its octet i + 1 on matches the path from j + 1 on.
Applies(pattern, path) ==
    LET body == Body(pattern)
        Matches[i \in 0..Len(body), j \in 0..Len(path)] ==
            IF i = Len(body) THEN j = Len(path)
            ELSE IF body[i + 1] = "*" THEN \E k \in j..Len(path) : Matches[i + 1, k]
            ELSE j < Len(path) /\ body[i + 1] = path[j + 1] /\ Matches[i + 1, j + 1]
    IN  Matches[0, 0]

\* The matcher's verdict is that of the definition: remembering only the latest
\* star loses no match and makes none up.
MatcherAgrees ==
    glob.verdict # "none" => (glob.verdict = "matches") = Applies(glob.pattern, glob.path)
===============================================================================
