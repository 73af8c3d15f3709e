------------------------------- MODULE Config -------------------------------
(***************************************************************************)
(* The configuration, src/src/file_monitor/config.py: a TOML file with     *)
(* four sections, overridden by environment variables, turned into an      *)
(* AppConfig and validated.                                                *)
(*                                                                         *)
(* A file is a record                                                      *)
(*    state    "unreadable" (open raises an OSError), "malformed" (no      *)
(*             TOML), "nested" (arrays or tables nested too deeply for     *)
(*             the parser) or "toml"                                       *)
(*    tables   the sections that are tables, or missing, which is the same *)
(*    values   a function from some of the keys to raw values              *)
(* and an environment a function from some of the keys to raw values.  A   *)
(* raw value is what int and str make of it: "ok" or the exception each of *)
(* them raises, the number and the text.  A text used as a path stands for *)
(* what is found there: "directory", "other" (exists, no directory),       *)
(* "nothing" or "unreachable" (no directory can be made).                  *)
(***************************************************************************)
EXTENDS Integers, Sequences

GF256_MAX_SHARES == 255
MAX_SYMBOL_BYTES == 1500 - 20 - 8 - 12 - 18
MIN_PORT == 1
MAX_PORT == 65535

\* str refuses an integer of too many digits, which TOML allows in hexadecimal.
RawValue == [int : {"ok", "ValueError", "TypeError", "OverflowError"},
             str : {"ok", "ValueError"}, number : Int, text : STRING]

\* An integer, a finite float (int truncates it), a Boolean or a numeral; a text
\* that is no numeral, or nan; an array, a table or a date; inf.
Number(n) == [int |-> "ok", str |-> "ok", number |-> n, text |-> "nothing"]
Text(t) == [int |-> "ValueError", str |-> "ok", number |-> 0, text |-> t]
Array == [int |-> "TypeError", str |-> "ok", number |-> 0, text |-> "nothing"]
Infinity == [int |-> "OverflowError", str |-> "ok", number |-> 0, text |-> "nothing"]

\* The keys in the order in which load_config overrides and then converts
\* them, with the conversion; the others have a default.
ENV_OVERRIDES ==
    << [section |-> "paths",   key |-> "watch_path",       cast |-> "str", required |-> TRUE],
       [section |-> "paths",   key |-> "socket_path",      cast |-> "str", required |-> TRUE],
       [section |-> "pacing",  key |-> "rate_ceiling_bps", cast |-> "int", required |-> FALSE],
       [section |-> "pacing",  key |-> "rate_floor_bps",   cast |-> "int", required |-> FALSE],
       [section |-> "fec",     key |-> "k",                cast |-> "int", required |-> TRUE],
       [section |-> "fec",     key |-> "n",                cast |-> "int", required |-> TRUE],
       [section |-> "fec",     key |-> "symbol_bytes",     cast |-> "int", required |-> TRUE],
       [section |-> "senders", key |-> "target_host",      cast |-> "str", required |-> FALSE],
       [section |-> "senders", key |-> "base_port",        cast |-> "int", required |-> FALSE],
       [section |-> "senders", key |-> "binary_path",      cast |-> "str", required |-> FALSE],
       [section |-> "senders", key |-> "sender_count",     cast |-> "int", required |-> FALSE] >>

Steps == DOMAIN ENV_OVERRIDES

DEFAULTS ==
    [rate_ceiling_bps |-> Number(20000000), rate_floor_bps |-> Number(5000000),
     target_host |-> Text("127.0.0.1"), base_port |-> Number(9000),
     binary_path |-> Text("./bin/nexus-sender"), sender_count |-> Number(3)]

(***************************************************************************)
(* Each step yields "ok" or the class of the exception it raises.          *)
(***************************************************************************)

\* An environment variable replaces the value of the file.  The conversion
\* comes first; then a section that is no table takes no assignment.
override(file, env, step) ==
    IF step.key \notin DOMAIN env THEN "ok"
    ELSE IF env[step.key][step.cast] # "ok" THEN env[step.key][step.cast]
    ELSE IF step.section \notin file.tables THEN "TypeError" ELSE "ok"

given(file, env, key) == key \in DOMAIN env \cup DOMAIN file.values

raw(file, env, key) ==
    IF key \in DOMAIN env THEN env[key]
    ELSE IF key \in DOMAIN file.values THEN file.values[key] ELSE DEFAULTS[key]

\* _require or dict.get, then str or int.
convert(file, env, step) ==
    IF step.required /\ (step.section \notin file.tables \/ ~ given(file, env, step.key))
    THEN "ValueError"
    ELSE IF step.section \notin file.tables THEN "AttributeError"
    ELSE raw(file, env, step.key)[step.cast]

\* A relative path is joined to the directory of the file: "" becomes that.
_resolve_path(text) == IF text = "" THEN "CONFIG_DIR" ELSE text

\* The AppConfig that the conversions yield.
app_config(file, env) ==
    LET number(key) == raw(file, env, key).number
        text(key)   == raw(file, env, key).text
    IN  [watch_path |-> _resolve_path(text("watch_path")),
         socket_path |-> _resolve_path(text("socket_path")),
         rate_ceiling_bps |-> number("rate_ceiling_bps"),
         rate_floor_bps |-> number("rate_floor_bps"),
         fec |-> [k |-> number("k"), n |-> number("n"), symbol_bytes |-> number("symbol_bytes")],
         target_host |-> text("target_host"),
         base_port |-> number("base_port"),
         binary_path |-> _resolve_path(text("binary_path")),
         sender_count |-> number("sender_count")]

\* The conditions of validate_config that raise a ValueError when they fail.
is_valid(c) ==
    /\ c.watch_path # "other"
    /\ c.rate_floor_bps > 0
    /\ c.rate_ceiling_bps >= c.rate_floor_bps
    /\ c.fec.k > 0 /\ c.fec.n > 0 /\ c.fec.symbol_bytes > 0
    /\ c.fec.n <= GF256_MAX_SHARES
    /\ c.fec.k < c.fec.n
    /\ c.fec.symbol_bytes <= MAX_SYMBOL_BYTES
    /\ c.binary_path # ""
    /\ c.sender_count >= 0
    /\ MIN_PORT <= c.base_port /\ c.base_port <= MAX_PORT

\* mkdir is tried before anything else is looked at.
validate_config(c) ==
    IF c.watch_path = "unreachable" THEN "OSError"
    ELSE IF is_valid(c) THEN "ok" ELSE "ValueError"

\* No step fails.
accepted(file, env) ==
    /\ file.state = "toml"
    /\ \A i \in Steps : override(file, env, ENV_OVERRIDES[i]) = "ok"
    /\ \A i \in Steps : convert(file, env, ENV_OVERRIDES[i]) = "ok"
    /\ validate_config(app_config(file, env)) = "ok"

\* What the first step that fails raises, "ok" if none does.
first_failure(outcome) ==
    LET failing == {i \in Steps : outcome[i] # "ok"}
    IN  IF failing = {} THEN "ok"
        ELSE outcome[CHOOSE i \in failing : \A j \in failing : i <= j]

load_config(file, env) ==
    LET overridden == first_failure([i \in Steps |-> override(file, env, ENV_OVERRIDES[i])])
        converted  == first_failure([i \in Steps |-> convert(file, env, ENV_OVERRIDES[i])])
    IN  CASE file.state = "unreadable" -> "OSError"
          [] file.state = "malformed" -> "ValueError"
          [] file.state = "nested" -> "RecursionError"
          [] OTHER -> IF overridden # "ok" THEN overridden
                      ELSE IF converted # "ok" THEN converted
                      ELSE validate_config(app_config(file, env))

(***************************************************************************)
(* The files and environments there are.                                   *)
(***************************************************************************)
Keys == {ENV_OVERRIDES[i].key : i \in Steps}

IsSource(values) == DOMAIN values \subseteq Keys /\ \A key \in DOMAIN values : values[key] \in RawValue

IsFile(file) ==
    /\ file.state \in {"unreadable", "malformed", "nested", "toml"}
    /\ file.tables \subseteq {"paths", "pacing", "fec", "senders"}
    /\ IsSource(file.values)

\* The environment holds texts: str leaves them as they are.
IsEnvironment(env) ==
    /\ IsSource(env)
    /\ \A key \in DOMAIN env : env[key].int \in {"ok", "ValueError"} /\ env[key].str = "ok"
=============================================================================
