---------------------------- MODULE OptionsStore ----------------------------
(***************************************************************************)
(* The file subu.options of release/manager/infrastructure/                *)
(* options_store.py.  Its only keys are incommon.<masu>; a value           *)
(* subu_<id> is the id, and a missing key, like the empty value that       *)
(* 'clear' writes, is NoId: every reader treats the two alike.             *)
(*                                                                         *)
(* set_option is load_options, a change to the dictionary, and             *)
(* save_options, whose write_text first truncates the file and then        *)
(* writes it.  No lock spans these three steps.                            *)
(***************************************************************************)
EXTENDS SubuPaths

VARIABLE options   \* the content of the file, by masu

NoId == 0

OptionValues == [Masus -> Nat]

NoOptions == [masu \in Masus |-> NoId]

\* open(..., "w") inside write_text.
TruncateOptions == options' = NoOptions

\* save_options of the dictionary `loaded` with one key changed.
SaveOptions(loaded, masu, id) == options' = [loaded EXCEPT ![masu] = id]
=============================================================================
