------------------------------ MODULE Settings ------------------------------
(***************************************************************************)
(* packages/config-file, and filterSearch() of packages/kafka-avro-cli.    *)
(*                                                                         *)
(* A setting is a string, [text |-> parts], or anything else, which may    *)
(* hold strings of its own: [nested |-> parts].  A part is a piece of      *)
(* text or ${name}, written as a name of Names.                            *)
(***************************************************************************)
EXTENDS Integers, Sequences, SequencesExt, Objects

CONSTANTS
  Names,   (* of environment variables *)
  Texts    (* the pieces of text *)

Part == Names \cup Texts

ASSUME TextsAssumption == "undefined" \in Texts

(* String(env[name]) *)
EnvText(env, name) == IF name \in DOMAIN env THEN env[name] ELSE <<"undefined">>

(* Faulty variant: what was substituted is substituted again. *)
ReplaceTwice(parts, env) ==
  LET once == FlattenSeq([i \in DOMAIN parts |->
                IF parts[i] \in Names THEN EnvText(env, parts[i]) ELSE <<parts[i]>>])
  IN  FlattenSeq([i \in DOMAIN once |->
                IF once[i] \in Names THEN EnvText(env, once[i]) ELSE <<once[i]>>])

(* value.replace(/\$\{...\}/g, ...) *)
Replace(parts, env) ==
  FlattenSeq([i \in DOMAIN parts |->
    IF parts[i] \in Names THEN EnvText(env, parts[i]) ELSE <<parts[i]>>])

resolveValues(config, env) ==
  [key \in DOMAIN config |->
    IF "text" \in DOMAIN config[key] THEN [text |-> Replace(config[key].text, env)]
    ELSE config[key]]

(* found is the set of the configuration the file holds, empty without one *)
loadConfigFile(found, env, defaults, required) ==
  IF found = {} THEN [error |-> "not found"]
  ELSE LET user == CHOOSE f \in found : TRUE
           missing == required \ DOMAIN user
       IN  IF missing # {} THEN [missing |-> missing]
           ELSE [config |-> Spread(defaults, resolveValues(user, env))]

-----------------------------------------------------------------------------
(* item.includes(search); a name is the sequence of its letters *)
includes(item, search) ==
  \E i \in 1..(Len(item) - Len(search) + 1) : SubSeq(item, i, i + Len(search) - 1) = search

filterSearch(search, list) ==
  CASE search = <<>> -> list
    [] search # <<>> /\ Contains(list, search) -> <<search>>
    [] OTHER -> SelectSeq(list, LAMBDA item : includes(item, search))
=============================================================================
