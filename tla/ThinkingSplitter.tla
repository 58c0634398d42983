------------------------ MODULE ThinkingSplitter ------------------------
(***************************************************************************)
(* llm/thinking_split.go: routes what a model writes between think tags to *)
(* the thinking channel while the text streams in, in deltas that may cut  *)
(* a tag anywhere.  Text is a sequence of tokens; the tags are             *)
(* <think>, <thinking>, </think> and </thinking>, cut where they differ.   *)
(***************************************************************************)
EXTENDS Naturals, Sequences, SequencesExt, FiniteSets

OpenTags == {<<"<think", ">">>, <<"<think", "ing", ">">>}
CloseTags == {<<"</think", ">">>, <<"</think", "ing", ">">>}

\* Not in a think block and nothing held back.
NewSplitter == [inThink |-> FALSE, held |-> <<>>]

\* Where the tags of a set occur in s, and the earliest of them.
Matches(s, tags) ==
    {m \in (1 .. Len(s)) \X tags : IsPrefix(m[2], SubSeq(s, m[1], Len(s)))}
Earliest(s, tags) == CHOOSE m \in Matches(s, tags) : \A n \in Matches(s, tags) : m[1] <= n[1]
Before(s, m) == SubSeq(s, 1, m[1] - 1)
After(s, m) == SubSeq(s, m[1] + Len(m[2]), Len(s))

\* Fault: a tag is held back only until its second token.
SuspiciousSuffixShort(s, tags) ==
    IF s # <<>> /\ \E tag \in tags : Head(tag) = Last(s) THEN <<Last(s)>> ELSE <<>>

\* The longest suffix of s that a tag, still being streamed in, could start with.
SuspiciousSuffix(s, tags) ==
    LET suspicious == {x \in Suffixes(s) : \E tag \in tags : IsStrictPrefix(x, tag)}
    IN CHOOSE x \in suspicious : \A y \in suspicious : Len(y) <= Len(x)

Delta(kind, s) == IF s = <<>> THEN <<>> ELSE <<[kind |-> kind, delta |-> s]>>

\* No tag: all but the suspicious suffix goes out.
HoldBack(s, tags, kind, inThink) ==
    LET x == SuspiciousSuffix(s, tags) IN
    [out |-> Delta(kind, SubSeq(s, 1, Len(s) - Len(x))),
     splitter |-> [inThink |-> inThink, held |-> x]]

After1(out, r) == [r EXCEPT !.out = out \o @]

RECURSIVE FeedNormal(_), ProcessThink(_)
FeedNormal(s) ==
    IF Matches(s, OpenTags) = {} THEN HoldBack(s, OpenTags, "text", FALSE)
    ELSE LET m == Earliest(s, OpenTags) IN
         After1(Delta("text", Before(s, m)), ProcessThink(After(s, m)))
ProcessThink(s) ==
    IF Matches(s, CloseTags) = {} THEN HoldBack(s, CloseTags, "thinking", TRUE)
    ELSE LET m == Earliest(s, CloseTags) IN
         After1(Delta("thinking", Before(s, m)),
                IF After(s, m) = <<>> THEN [out |-> <<>>, splitter |-> NewSplitter]
                ELSE FeedNormal(After(s, m)))

Feed(splitter, delta) ==
    IF splitter.inThink THEN ProcessThink(splitter.held \o delta)
    ELSE FeedNormal(splitter.held \o delta)

Flush(splitter) == Delta(IF splitter.inThink THEN "thinking" ELSE "text", splitter.held)

-----------------------------------------------------------------------------
(* The reference: the two parts of a text that is there as a whole.        *)
RECURSIVE Parts(_)
Parts(s) ==
    IF Matches(s, OpenTags) = {} THEN [text |-> s, thinking |-> <<>>]
    ELSE LET m == Earliest(s, OpenTags)
             rest == After(s, m)
         IN IF Matches(rest, CloseTags) = {} THEN [text |-> Before(s, m), thinking |-> rest]
            ELSE LET n == Earliest(rest, CloseTags)
                     p == Parts(After(rest, n))
                 IN [text |-> Before(s, m) \o p.text, thinking |-> Before(rest, n) \o p.thinking]
=============================================================================
