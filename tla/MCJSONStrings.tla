--------------------------- MODULE MCJSONStrings ----------------------------
(***************************************************************************)
(* Instances of JSONStrings: a plain byte, characters of two and three     *)
(* bytes, every kind of escape, the halves of a pair, bytes around those   *)
(* the search stops at.                                                    *)
(***************************************************************************)
EXTENDS JSONStrings

U(raw, rune) == [raw |-> raw, rune |-> rune]
Chars ==
    {U(<<97>>, 97), U(<<60>>, 60), U(<<195, 169>>, 233),
     U(<<226, 128, 168>>, 8232), U(<<128>>, Stray),
     U(<<92, 110>>, 10), U(<<92, 34>>, 34), U(<<92, 92>>, 92), U(<<92, 47>>, 47),
     U(<<92, 117, 48, 48, 52, 49>>, 65),
     U(<<92, 117, 48, 48, 48, 49>>, 1),
     U(<<92, 117, 48, 48, 101, 57>>, 233),
     U(<<92, 117, 100, 56, 51, 100>>, 55357),
     U(<<92, 117, 68, 69, 48, 48>>, 56832),
     U(<<92, 120>>, Broken), U(<<92, 117, 48, 48, 52, 71>>, Broken)}

Around == {31, 32, 34, 35, 92, 128}
=============================================================================
