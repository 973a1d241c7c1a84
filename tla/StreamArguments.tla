-------------------------- MODULE StreamArguments --------------------------
(* The arguments of a published stream, ...?appid=A&channel=C&dual=true,   *)
(* and how ngx_agora_init finds them: get_arg_value looks for the name of  *)
(* an argument with strstr, wherever in the text it is.                    *)
(*                                                                         *)
(* A text is a sequence of pieces: a name, "=", "&" and "%2F" are pieces,  *)
(* and so is any run of characters without one of these in it.  The piece  *)
(* right after a name stands for one character.                            *)
EXTENDS Naturals, Sequences, SequencesExt

Names == {"appid", "channel", "abr", "uid", "enc", "dvbr", "dwidth",
          "dheight", "dfps", "dual", "jb"}

\* An argument ends at the next "&", so that no value has one in it.
Argument == [name : Names, value : Seq(STRING \ {"&"})]

\* What the publisher's client sends for arguments <<[name |-> , value |-> ]>>.
Text(query) ==
  FoldLeftDomain(LAMBDA text, i :
                   text \o (IF i = 1 THEN <<>> ELSE << "&" >>)
                        \o << query[i].name, "=" >> \o query[i].value,
                 <<>>, query)

\* get_arg_value left the zeroed buffer, or the default, as it was.
NotGiven == <<>>

\* The first `piece' of a text, from a place on; the text's end if none is.
PlaceFrom(text, from, piece) ==
  LET at == SelectInSubSeq(text, from, Len(text), LAMBDA p : p = piece)
  IN  IF at = 0 THEN Len(text) + 1 ELSE at

\* Mutant of find_arg_end: the last & (strrchr).
FindArgEndLast(text, from) ==
  LET at == SelectLastInSeq(text, LAMBDA p : p = "&")
  IN  IF at < from THEN Len(text) + 1 ELSE at

find_arg_end(text, from) == PlaceFrom(text, from, "&")

\* One character is skipped after the name, whichever it is.
get_arg_value(text, name) ==
  LET start == PlaceFrom(text, 1, name)
      end   == find_arg_end(text, start)
  IN  IF end <= start + 2 THEN NotGiven ELSE SubSeq(text, start + 2, end - 1)

\* ngx_agora_replace_forward_slash: every %2F, in upper case only.
ReplaceSlash(text) == ReplaceAll(text, "%2F", "/")

\* What ngx_agora_init makes of the text: each argument by its name.
Parse(text) ==
  [name \in Names |->
     IF name = "appid" THEN ReplaceSlash(get_arg_value(text, name))
                       ELSE get_arg_value(text, name)]

\* There is no stream without these two.
Required == {"appid", "channel"}
Complete(arguments) == \A name \in Required : arguments[name] # NotGiven

\* ngx_strncmp(dual_flag, "true", 4).
DualOn(arguments) == /\ arguments["dual"] # NotGiven
                     /\ Head(arguments["dual"]) = "true"
=============================================================================
