---------------------------- MODULE PolicyBlock ----------------------------
(***************************************************************************)
(* `pincher init` and the MCP tool init: the block of policy text that     *)
(* pincher keeps between two markers in the rules files of an editor       *)
(* (internal/init/init.go, detect.go, targets.go), merged into whatever    *)
(* the user wrote and written back in place (cmd/pinch/init.go,            *)
(* internal/server/init.go).                                               *)
(*                                                                         *)
(* A file is a sequence of paragraphs, each with its line ending.  Markers *)
(* and headings are paragraphs of their own, a paragraph under them belongs *)
(* to them; all headings have one level, and paragraphs one length.  The   *)
(* router's payload is two sections, each under its heading.  Two runs of  *)
(* init, of the command line and of the server, may overlap with each      *)
(* other and with the user's edits: nothing locks the file.                *)
(***************************************************************************)
EXTENDS Integers, SequencesExt

CONSTANTS
    Commands,   \* runs of `pincher init` that may be under way at once
    Tools,      \* runs of the MCP tool init that may be under way at once
    Docs,       \* the texts the user may start from
    MaxEdits,   \* bound: edits of the user
    MaxRuns,    \* bound: runs of init begun
    MaxFaults   \* bound: crashes and failed reads

User   == {"text", "heading", "mention"}    \* "mention": a heading that names pincher
Policy == {"usage", "routing"}              \* the sections of policy.md and policy_router.md
Para   == [t : User \cup Policy \cup {"start", "preface", "end", "broken"}, crlf : BOOLEAN]

\* What the block may hold: PolicyMarkdown, PolicyWithRouter.
Plain      == <<"usage">>
WithRouter == <<"usage", "routing">>
Payload    == {Plain, WithRouter}

Runs == Commands \cup Tools

ASSUME PolicyAssumption == Docs \subseteq Seq(Para)

VARIABLES
    json,       \* the file is a JSON configuration, the text one string in it
    file,       \* its paragraphs
    run,        \* run[i]: a run's phase and what it has read and will write
    edits, begun, faults

vars == <<json, file, run, edits, begun, faults>>

---------------------------------------------------------------------------
(* The merge *)

Texts(doc) == [i \in DOMAIN doc |-> doc[i].t]
LF(doc) == [i \in DOMAIN doc |-> [doc[i] EXCEPT !.crlf = FALSE]]

\* strings.Index: where the first paragraph of this text is, or 0.
Index(doc, t) == IF \E i \in DOMAIN doc : doc[i].t = t
                 THEN Min({i \in DOMAIN doc : doc[i].t = t}) ELSE 0

HasMarkers(doc) == Index(doc, "start") > 0 /\ Index(doc, "end") > Index(doc, "start")

Lines(ts) == [i \in DOMAIN ts |-> [t |-> ts[i], crlf |-> FALSE]]
Block(p) == <<"start", "preface">> \o p \o <<"end">>
BuildPolicyBlock(p) == Lines(Block(p))

Heading(x) == x.t \in {"heading", "mention"} \cup Policy
Mentions(x) == x.t \in {"mention"} \cup Policy

\* DetectPincherPolicySection: from the first heading that names pincher to
\* the next heading of its level.
Section(doc) ==
    LET i == Min({k \in DOMAIN doc : Mentions(doc[k])})
        next == {k \in i + 1 .. Len(doc) : Heading(doc[k])}
    IN <<i, IF next = {} THEN Len(doc) ELSE Min(next) - 1>>

HasSection(doc) == \E k \in DOMAIN doc : Mentions(doc[k])

\* The hand-written section, put between markers.
Wrapped(doc) ==
    LET s == Section(doc)
    IN SubSeq(doc, 1, s[1] - 1) \o Lines(<<"start">>) \o SubSeq(doc, s[1], s[2])
       \o Lines(<<"end">>) \o SubSeq(doc, s[2] + 1, Len(doc))

\* restoreLineEndings
Restore(crlf, doc) == [i \in DOMAIN doc |-> [doc[i] EXCEPT !.crlf = crlf]]

\* A replacement that appends a block beside the one that is there.
ReplaceAppends(doc, p) == doc \o BuildPolicyBlock(p)

\* A replacement that loses what follows the end marker.
ReplaceDropsTail(doc, p) ==
    IF HasMarkers(doc)
    THEN SubSeq(doc, 1, Index(doc, "start") - 1) \o BuildPolicyBlock(p)
    ELSE doc \o BuildPolicyBlock(p)

\* Replace what is between the markers, or append a block.
Replace(doc, p) ==
    IF HasMarkers(doc)
    THEN SubSeq(doc, 1, Index(doc, "start") - 1) \o BuildPolicyBlock(p)
         \o SubSeq(doc, Index(doc, "end") + 1, Len(doc))
    ELSE doc \o BuildPolicyBlock(p)

\* MergePolicyBlockBare; MergePolicyBlock only adds a title to a new file.
MergePolicyBlock(doc, p) ==
    IF doc = <<>> THEN BuildPolicyBlock(p)
    ELSE LET text == LF(doc)
             marked == IF ~HasMarkers(text) /\ HasSection(text) THEN Wrapped(text) ELSE text
         IN Restore(\E i \in DOMAIN doc : doc[i].crlf, Replace(marked, p))

\* WriteFn of the targets: a rules file is merged as above; in a JSON
\* configuration only the message is, its line endings are not looked at, and
\* a file that does not parse is refused.
Broken(doc) == Index(doc, "broken") > 0
Refused(doc) == json /\ Broken(doc)
WriteFn(doc, p) == IF json THEN IF doc = <<>> THEN BuildPolicyBlock(p) ELSE Replace(doc, p)
                   ELSE MergePolicyBlock(doc, p)

---------------------------------------------------------------------------
Idle == [pc |-> "idle"]

Init == /\ json \in BOOLEAN
        /\ file \in Docs
        /\ run = [i \in Runs |-> Idle]
        /\ edits = 0 /\ begun = 0 /\ faults = 0

\* The tool has the default payload and leaves global targets alone, which
\* the JSON configuration is; the command may also take the router's.
Payloads(i) == IF i \in Commands THEN Payload ELSE {Plain}
May(i) == run[i].pc = "idle" /\ begun < MaxRuns /\ (i \in Tools => ~json)

\* PlanWithPolicy: the file is read and the merge computed.  A refused or
\* dry run ends here.
Plan(i) ==
    /\ May(i)
    /\ \E p \in Payloads(i), dry \in BOOLEAN :
          run' = [run EXCEPT ![i] = IF dry \/ Refused(file) THEN Idle ELSE
                    [pc |-> "planned", seen |-> file, out |-> WriteFn(file, p), stale |-> FALSE]]
    /\ begun' = begun + 1
    /\ UNCHANGED <<json, file, edits, faults>>

\* ReadFileIfExists takes a read that fails for an empty file.
PlanUnread(i) ==
    /\ May(i) /\ faults < MaxFaults
    /\ \E p \in Payloads(i) :
          run' = [run EXCEPT ![i] =
                    [pc |-> "planned", seen |-> <<>>, out |-> WriteFn(<<>>, p), stale |-> TRUE]]
    /\ begun' = begun + 1 /\ faults' = faults + 1
    /\ UNCHANGED <<json, file, edits>>

\* The tool leaves a file alone that would not change.
Skip(i) ==
    /\ run[i].pc = "planned" /\ i \in Tools /\ run[i].seen = run[i].out
    /\ run' = [run EXCEPT ![i] = Idle]
    /\ UNCHANGED <<json, file, edits, begun, faults>>

\* WriteFileEnsuringDir: os.WriteFile truncates the file, then writes it.
\* stale is history: the file is no longer the one the run has read.
Truncate(i) ==
    /\ run[i].pc = "planned" /\ (i \in Tools => run[i].seen # run[i].out)
    /\ run' = [run EXCEPT ![i].pc = "writing", ![i].stale = @ \/ file # run[i].seen]
    /\ file' = <<>>
    /\ UNCHANGED <<json, edits, begun, faults>>

\* It writes from the start: of a longer text that came in between, the rest
\* stays.
Write(i) ==
    /\ run[i].pc = "writing"
    /\ file' = run[i].out \o SubSeq(file, Len(run[i].out) + 1, Len(file))
    /\ run' = [run EXCEPT ![i] = Idle]
    /\ UNCHANGED <<json, edits, begun, faults>>

\* The process dies; what it had written stays.
Crash(i) ==
    /\ run[i].pc # "idle" /\ faults < MaxFaults
    /\ run' = [run EXCEPT ![i] = Idle] /\ faults' = faults + 1
    /\ UNCHANGED <<json, file, edits, begun>>

\* The user's editor: a paragraph is added at either end, or one is removed,
\* a marker too.
UserEdit ==
    /\ edits < MaxEdits
    /\ \/ \E t \in User \cup {"broken"} :
             LET x == [t |-> t, crlf |-> \E i \in DOMAIN file : file[i].crlf]
             IN file' = <<x>> \o file \/ file' = Append(file, x)
       \/ \E i \in DOMAIN file : file' = RemoveAt(file, i)
    /\ edits' = edits + 1
    /\ UNCHANGED <<json, run, begun, faults>>

Done == /\ \A i \in Runs : run[i].pc = "idle"
        /\ begun = MaxRuns /\ edits = MaxEdits /\ UNCHANGED vars

Next == \/ \E i \in Runs : \/ Plan(i) \/ PlanUnread(i) \/ Skip(i)
                           \/ Truncate(i) \/ Write(i) \/ Crash(i)
        \/ UserEdit \/ Done

Spec == Init /\ [][Next]_vars

---------------------------------------------------------------------------
Count(doc, t) == Cardinality({i \in DOMAIN doc : doc[i].t = t})

\* No marker, or one pair of them in order.
Sane(doc) == \/ Count(doc, "start") = 0 /\ Count(doc, "end") = 0
             \/ Count(doc, "start") = 1 /\ Count(doc, "end") = 1 /\ HasMarkers(doc)

\* What is the user's: all but the block, or but the section init takes over.
Outside(doc) ==
    LET cut == CASE HasMarkers(doc) -> <<Index(doc, "start"), Index(doc, "end")>>
                 [] ~HasMarkers(doc) /\ ~json /\ HasSection(doc) -> Section(doc)
                 [] OTHER -> <<Len(doc) + 1, Len(doc)>>
    IN Texts(SubSeq(doc, 1, cut[1] - 1) \o SubSeq(doc, cut[2] + 1, Len(doc)))

\* A section of the policy outside of what init takes over.
Stray(doc) == LET out == Outside(doc) IN \E i \in DOMAIN out : out[i] \in Policy

\* On a file with no marker or one pair, init has one block as its result,
\* with its payload and nothing else, and a second init, with either payload,
\* only replaces its content: the file does not grow ("idempotent;
\* replace-in-place via marker comments", cmd/pinch/init.go), and the routing
\* section goes when it is run without --router.  A section beside the block
\* is left exactly where one was outside of what init takes over: none where
\* the policy is in the block or, without the markers, one section (#243);
\* but the second section of the router's payload, once its markers are
\* removed.
RerunSettles ==
    (Sane(file) /\ ~Refused(file)) =>
        \A p \in Payload :
            LET once == WriteFn(file, p)
            IN /\ Sane(once) /\ HasMarkers(once)
               /\ Texts(SubSeq(once, Index(once, "start"), Index(once, "end"))) = Block(p)
               /\ \A r \in Payload : Texts(WriteFn(once, r)) = Texts(WriteFn(file, r))
               /\ Stray(once) <=> Stray(file)

\* No two line endings in one text.
Uniform(doc) == \A j, k \in DOMAIN doc : doc[j].crlf = doc[k].crlf

\* A write of init to the file it has read, with nobody else's write in
\* between, keeps what is the user's, in its order, though the payload, the
\* markers or a hand-written section change place (MergePolicyBlockBare); and
\* a rules file with one kind of line ending keeps it (#778, #779).
KeepsUserText ==
    [][\A i \in Runs :
          (run[i].pc = "writing" /\ run'[i].pc = "idle" /\ faults' = faults
             /\ file = <<>> /\ ~run[i].stale /\ Sane(run[i].seen))
          => /\ Outside(file') = Outside(run[i].seen)
             /\ ~json /\ Uniform(run[i].seen) => Uniform(run[i].seen \o file')]_vars
============================================================================
