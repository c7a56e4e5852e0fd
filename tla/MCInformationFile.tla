------------------------- MODULE MCInformationFile -------------------------
(***************************************************************************)
(* Values of the constants of InformationFile for TLC.                     *)
(***************************************************************************)
EXTENDS InformationFile

x == <<"text", "x">>

(* A text that fits its line, and one that does not and contains what      *)
(* would end a value.                                                      *)
SomeTexts == {<<x>>, <<x, Close("a"), x>>}

(* One that fits, and one with a "<" that ends no value.                   *)
SomeHashTexts == {<<x>>, <<Bare, x>>}

Fixed == {<<<<"text", "fixed">>>>}

(* A file that another program wrote, with a type of media.                *)
Foreign == {[EmptyTables EXCEPT !["media_values"] =
               <<Value("media_type", <<<<"text", "fixed">>>>, FALSE)>>]}
=============================================================================
