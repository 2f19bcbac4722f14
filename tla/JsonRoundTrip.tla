-------------------------- MODULE JsonRoundTrip -----------------------------
(***************************************************************************)
(* What the text side of engine/json.hpp promises: what json::parse makes  *)
(* of a text is what the grammar says, and what dump() writes is parsed to *)
(* the same value.                                                         *)
(***************************************************************************)
EXTENDS JsonSession

(* A number as a value: an integer that fits, or a float.                  *)
numberTree(n) ==
  IF n.integral /\ -MaxInteger - 1 <= n.number /\ n.number <= MaxUnsigned
  THEN <<"number", n.number>> ELSE <<"float", n.bytes>>

G == INSTANCE JsonGrammar WITH Overflows <- infinite, NumberTree <- numberTree

(* What the parser accepts is a JSON text; what it turns down cannot be    *)
(* continued to one, or has come to its end too early.  So no text is      *)
(* refused, and none accepted, that the grammar does not say.              *)
AcceptsGrammar ==
  stage = "parse" =>
    /\ pc = "accepted" => G!document(text).is = "found"
    /\ pc = "failed" => \/ G!document(text).is = "bad"
                        \/ G!document(text).is = "short" /\ current \in {EOF, NUL}

(* And the value it builds is the one the text denotes, in whatever cells  *)
(* it came to lie; of a key that comes twice the last value counts.        *)
BuildsValue ==
  stage = "parse" /\ pc = "accepted" => Tree[ROOT] = G!document(text).value

(* A string without what is not UTF-8 in it: for the longest part that     *)
(* could have begun a character, or else a byte, a replacement.            *)
RECURSIVE Clean(_, _)
Clean(string, replacement) ==
  LET first == G!character(string, 1)
      begun(n) == n = 1 \/ G!character(SubSeq(string, 1, n), 1).is = "short"
      skipped == CHOOSE n \in DOMAIN string :
                   begun(n) /\ (n = Len(string) \/ ~begun(n + 1))
  IN IF string = <<>> THEN <<>>
     ELSE IF first.is = "found"
     THEN first.value \o Clean(SubSeq(string, first.next, Len(string)), replacement)
     ELSE replacement \o Clean(SubSeq(string, skipped + 1, Len(string)), replacement)

RECURSIVE CleanTree(_, _)
CleanTree(t, replacement) ==
  IF isContainer(t) THEN <<t[1], [k \in DOMAIN t[2] |-> CleanTree(t[2][k], replacement)]>>
  ELSE IF t[1] = "string" THEN <<"string", Clean(t[2], replacement)>>
  ELSE t

REPLACEMENT == <<239, 191, 189>>

(* What dump() writes parses, and back to the same value, but for what is  *)
(* not UTF-8 in its strings; and strictly it throws only for that.         *)
RoundTrip ==
  /\ stage = "dump" /\ thrown => CleanTree(tree, REPLACEMENT) # tree
  /\ stage = "reparse" => pc # "failed"
  /\ stage = "reparse" /\ pc = "accepted" =>
       Tree[ROOT] = CASE settings.error_handler = "strict"  -> tree
                      [] settings.error_handler = "ignore"  -> CleanTree(tree, <<>>)
                      [] settings.error_handler = "replace" -> CleanTree(tree, REPLACEMENT)
=============================================================================
