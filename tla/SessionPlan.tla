----------------------------- MODULE SessionPlan -----------------------------
(***************************************************************************)
(* One session of the planning code from end to end: the dispatcher plans  *)
(* the AssignSession messages for a file and a list of active senders      *)
(* (SessionDispatcher._send_to_senders, its pure part), and each sender    *)
(* transmits the blocks its own message tells it to, in any order.         *)
(*                                                                         *)
(* The FEC parameters and the base port are those of a configuration that  *)
(* load_config accepts.                                                    *)
(*                                                                         *)
(* The senders are not part of the repository.  They are modelled from     *)
(* src/docs/SENDER_CONTRACT.md, which file-monitor is written against: a   *)
(* sender works from its message alone, and takes from it the blocks with  *)
(* block_id % total_senders = manifest.sender_id, each k * block_bytes     *)
(* bytes wide.                                                             *)
(***************************************************************************)
EXTENDS Planning, Config

CONSTANTS
    FileSizes,      \* sizes of the file, in bytes
    ConfigFiles,    \* configuration files, see Config
    Environments,   \* what the environment variables hold
    Rosters,        \* lists a caller may pass as active_senders
    Paths,          \* paths of the file
    WatchRoot,      \* the directory under watch
    FloatBits       \* significant bits of a float, 53 in the code

ASSUME PlanAssumption ==
    /\ FileSizes \subseteq Nat
    /\ \A f \in ConfigFiles : IsFile(f)
    /\ \A e \in Environments : IsEnvironment(e)
    /\ Rosters \subseteq Seq(Int)
    /\ Paths \subseteq Seq(STRING) /\ WatchRoot \in Seq(STRING)
    /\ FloatBits \in Nat \ {0}

VARIABLES
    source,         \* the SourceFile
    fec,            \* FecParams
    roster,         \* active_senders
    base_port,
    messages,       \* the AssignSession messages, one for each of roster
    phase,          \* "planning", "planned", "error"
    transmitted     \* positions in roster whose sender has transmitted its shard

vars == <<source, fec, roster, base_port, messages, phase, transmitted>>

total_blocks == calculate_block_count(source.size_bytes, fec)

\* The positions whose messages exist.
Planned == IF phase = "planned" THEN DOMAIN messages ELSE {}

Init ==
    /\ source \in [path : Paths, size_bytes : FileSizes,
                   file_hash : {[digits |-> FILE_HASH_HEX_LENGTH, is_hex |-> TRUE]}]
    /\ \E f \in ConfigFiles, e \in Environments :
          /\ accepted(f, e)
          /\ fec = app_config(f, e).fec
          /\ base_port = app_config(f, e).base_port
    /\ roster \in Rosters
    /\ messages = <<>>
    /\ phase = "planning"
    /\ transmitted = {}

inputs_accepted ==
    /\ shard_inputs_accepted(total_blocks, roster, base_port)
    /\ \A i \in DOMAIN roster :
          manifest_accepted(source, residue_at(roster, i), Len(roster), WatchRoot)

\* The loop of _send_to_senders, up to the send.
plan_messages ==
    LET shards == derive_shard_assignments(total_blocks, roster, base_port)
    IN  [i \in DOMAIN shards |->
            build_assign_session(
                build_manifest(source, fec, "session", shards[i].shard_residue, WatchRoot),
                shards[i].shard_modulus, "host", shards[i].target_port, source.path)]

Plan ==
    /\ phase = "planning"
    /\ inputs_accepted
    /\ messages' = plan_messages
    /\ phase' = "planned"
    /\ UNCHANGED <<source, fec, roster, base_port, transmitted>>

\* A ValueError leaves the session without any message.
Reject ==
    /\ phase = "planning"
    /\ ~ inputs_accepted
    /\ phase' = "error"
    /\ UNCHANGED <<source, fec, roster, base_port, messages, transmitted>>

(***************************************************************************)
(* The sender's side.                                                      *)
(***************************************************************************)

\* The blocks sender i transmits, from its message alone.
SenderBlocks(i) ==
    LET m == messages[i]
    IN  {b \in 0 .. m.manifest.total_blocks - 1 : b % m.total_senders = m.manifest.sender_id}

\* The bytes of block b as sender i reads them from the file.
SenderBytes(i, b) ==
    LET width == messages[i].manifest.k * messages[i].manifest.block_bytes
    IN  b * width .. minimum((b + 1) * width, messages[i].manifest.file_size) - 1

Transmit(i) ==
    /\ i \in Planned \ transmitted
    /\ transmitted' = transmitted \cup {i}
    /\ UNCHANGED <<source, fec, roster, base_port, messages, phase>>

Next ==
    \/ Plan
    \/ Reject
    \/ \E i \in DOMAIN messages : Transmit(i)

Spec == Init /\ [][Next]_vars

(***************************************************************************)
(* Properties.                                                             *)
(***************************************************************************)

\* How often byte x of the file has been put on the network so far.
TimesSent(x) ==
    Cardinality({p \in transmitted \X (0 .. total_blocks - 1) :
                    p[2] \in SenderBlocks(p[1]) /\ x \in SenderBytes(p[1], p[2])})

(***************************************************************************)
(* However the senders are numbered and in whichever order they transmit,  *)
(* no byte of the file is sent twice, and once they have all transmitted   *)
(* every byte has been sent: the residues, the modulus and the block count *)
(* fit together (that a block has the planned width is the next property). *)
(***************************************************************************)
EveryByteSentOnce ==
    \A x \in 0 .. source.size_bytes - 1 :
        /\ TimesSent(x) <= 1
        /\ (phase = "planned" /\ transmitted = DOMAIN roster) => TimesSent(x) = 1

(***************************************************************************)
(* compute_block_plans describes the blocks the senders transmit: plan b   *)
(* covers the bytes that the sender of block b reads, none of them empty,  *)
(* and the plans follow each other from the first byte to the last.        *)
(***************************************************************************)
BlockPlansAreTransmitted ==
    LET plans == compute_block_plans(source.size_bytes, fec)
    IN  /\ \A i \in Planned : \A b \in SenderBlocks(i) :
              SenderBytes(i, b) = plans[b + 1].start_byte .. plans[b + 1].end_byte - 1
        /\ \A i \in DOMAIN plans : plans[i].start_byte < plans[i].end_byte
        /\ \A i \in 2 .. Len(plans) : plans[i].start_byte = plans[i - 1].end_byte
        /\ plans # <<>> => plans[Len(plans)].end_byte = source.size_bytes

(***************************************************************************)
(* math.ceil(file_size / block_size) is computed in floating point and is  *)
(* nevertheless the exact block count while the size fits a float's        *)
(* significand (2^53 bytes in the code).                                   *)
(***************************************************************************)
BlockCountExactInFloats ==
    source.size_bytes < 2^FloatBits =>
        float_ceil_division(source.size_bytes, block_size(fec), FloatBits) = total_blocks

\* The directory level reached after the first n parts of a relative path.
Depth(path, n) ==
    Cardinality({j \in 1 .. n : path[j] # ".."})
        - Cardinality({j \in 1 .. n : path[j] = ".."})

(***************************************************************************)
(* Followed from the receiver's output directory, the filepath of a        *)
(* manifest never climbs above that directory (comment in build_manifest). *)
(***************************************************************************)
FilepathStaysInside ==
    \A i \in Planned :
        LET filepath == messages[i].manifest.filepath
        IN  \A n \in DOMAIN filepath : Depth(filepath, n) >= 0
=============================================================================
