------------------------- MODULE MCSessionLifecycle -------------------------
(* Two streams, one after the other: what the first leaves is there while  *)
(* the second opens and closes.                                            *)
EXTENDS SessionLifecycle

Arg(name, value) == [name |-> name, value |-> value]

\* With and without the optional arguments, in another order, with an empty
\* value, a slash, a name inside a value before and after its argument.
MCQueries ==
  { << Arg("appid", <<"id">>), Arg("channel", <<"room">>) >>,
    << Arg("appid", <<"id">>), Arg("channel", <<"room">>),
       Arg("dual", <<"true">>), Arg("dfps", <<"10">>) >>,
    << Arg("dual", <<"true">>), Arg("uid", <<"dual", "x">>),
       Arg("channel", <<"room">>), Arg("appid", <<"a", "%2F", "%2F", "b">>) >>,
    << Arg("appid", <<"id", "jb", "x", "1">>), Arg("channel", <<"dual", "-", "room">>),
       Arg("dual", <<"true">>), Arg("jb", <<"6">>) >>,
    << Arg("appid", <<"id">>), Arg("channel", <<>>), Arg("abr", <<"50000">>) >>,
    << Arg("channel", <<"room">>) >> }

MCNumbers == [text \in {"60", "8000", "9000", "70000", "-1"} |->
                CASE text = "60" -> 60      [] text = "8000" -> 8000
                  [] text = "9000" -> 9000  [] text = "70000" -> 70000
                  [] text = "-1" -> -1]

Size(value)    == << "jb-initial-size-ms", "=", value >>
MaxSize(value) == << "jb-max-size-ms", "=", value, "//", "ms" >>

\* No file; a good one; sizes too large, negative, beyond 65535; two lines for
\* one key; a line that is no setting, before and after a size.
MCFiles ==
  { <<>>,
    << <<"fps-log", "=", "yes">>, Size("60"), <<"//", "note">>, MaxSize("8000"),
       <<>>, <<"qmax", "=", "-1">>, <<"fps-log", "=", "no">> >>,
    << Size("9000"), MaxSize("-1") >>,
    << Size("60"), Size("8000"), MaxSize("text") >>,
    << Size("-1"), <<"text">>, MaxSize("60") >>,
    << <<"//", "=", "x">>, <<"text", "//", "=", "x">>, Size("9000") >>,
    << Size("70000"), <<"qmin", "=">> >> }
=============================================================================
