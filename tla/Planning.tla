------------------------------ MODULE Planning ------------------------------
(***************************************************************************)
(* The pure planning code of file-monitor: how a file is cut into FEC      *)
(* blocks, how the blocks are dealt out to the active senders, and the     *)
(* AssignSession message each sender is given.                             *)
(*   src/src/file_monitor/domain/planning.py, domain/models.py,            *)
(*   src/src/file_monitor/services/planner.py                              *)
(*                                                                         *)
(* A Python list is a sequence, so the element Python calls 0 is the       *)
(* element 1 here; block ids, byte offsets and shard residues keep their   *)
(* zero-based values.  A ValueError is modelled by a predicate that is     *)
(* FALSE for the inputs the code rejects.                                  *)
(***************************************************************************)
EXTENDS Integers, Sequences, FiniteSets

(***************************************************************************)
(* Blocks.                                                                 *)
(***************************************************************************)

\* FecParams.block_size: a block is k symbols.
block_size(fec) == fec.k * fec.symbol_bytes

\* Faulty form of calculate_block_count: one more than the floor, whatever
\* the remainder.
extra_block_count(file_size, fec) == file_size \div block_size(fec) + 1

\* Faulty form of calculate_block_count: the floor, which drops a partial block.
floor_block_count(file_size, fec) == file_size \div block_size(fec)

\* math.ceil(file_size / block_size), the quotient taken exactly.
calculate_block_count(file_size, fec) ==
    (file_size + block_size(fec) - 1) \div block_size(fec)

minimum(a, b) == IF a <= b THEN a ELSE b

\* Faulty form of block_end: the last block is not clipped to the file.
unclipped_block_end(i, file_size, fec) == i * block_size(fec)

block_end(i, file_size, fec) == minimum(i * block_size(fec), file_size)

compute_block_plans(file_size, fec) ==
    [i \in 1 .. calculate_block_count(file_size, fec) |->
        [block_id   |-> i - 1,
         start_byte |-> (i - 1) * block_size(fec),
         end_byte   |-> block_end(i, file_size, fec)]]

(***************************************************************************)
(* The quotient file_size / block_size is a float.  CPython rounds the     *)
(* true quotient of two ints once, to the nearest number with `bits`       *)
(* significant bits, ties to even (bits = 53 for the code; small in the    *)
(* models).  float_scale is the power of two that shifts the quotient      *)
(* into [2^(bits-1), 2^bits), where its significand is an integer.         *)
(***************************************************************************)
float_scale(a, b, bits) ==
    CHOOSE s \in 0 .. bits + b :
        /\ a * 2^s >= b * 2^(bits - 1)
        /\ a * 2^s < b * 2^bits

round_half_even(num, den) ==
    LET q == num \div den
        r == num % den
    IN  IF 2 * r > den \/ (2 * r = den /\ q % 2 = 1) THEN q + 1 ELSE q

\* ceil of the float nearest to a / b, for a \in 0 .. 2^bits - 1.
float_ceil_division(a, b, bits) ==
    IF a = 0 THEN 0
    ELSE LET s   == float_scale(a, b, bits)
             sig == round_half_even(a * 2^s, b)
         IN  (sig + 2^s - 1) \div 2^s

(***************************************************************************)
(* Shards.                                                                 *)
(***************************************************************************)

\* The list the code returns is increasing and has no duplicates: a set.
blocks_for_shard(total_blocks, modulus, residue) ==
    {b \in 0 .. total_blocks - 1 : b % modulus = residue}

no_duplicates(s) == \A i, j \in DOMAIN s : s[i] = s[j] => i = j

\* The four ValueErrors of derive_shard_assignments.
shard_inputs_accepted(total_blocks, active_senders, base_port) ==
    /\ active_senders # <<>>
    /\ no_duplicates(active_senders)
    /\ total_blocks >= 0
    /\ base_port > 0

\* enumerate(active_senders): the residue is the position.
residue_at(active_senders, i) == i - 1

derive_shard_assignments(total_blocks, active_senders, base_port) ==
    [i \in DOMAIN active_senders |->
        LET residue == residue_at(active_senders, i)
        IN  [sender_id       |-> active_senders[i],
             shard_modulus   |-> Len(active_senders),
             shard_residue   |-> residue,
             assigned_blocks |-> blocks_for_shard(total_blocks, Len(active_senders), residue),
             target_port     |-> base_port + residue]]

(***************************************************************************)
(* Manifests and messages.  A path is the sequence of its parts;           *)
(* PurePath.relative_to compares parts and never resolves "..".            *)
(***************************************************************************)

is_relative_to(path, root) ==
    Len(root) <= Len(path) /\ SubSeq(path, 1, Len(root)) = root

relative_to(path, root) == SubSeq(path, Len(root) + 1, Len(path))

FILE_HASH_HEX_LENGTH == 64

\* file_hash is [digits |-> its length, is_hex |-> BOOLEAN].
file_hash_accepted(file_hash) ==
    file_hash.digits = FILE_HASH_HEX_LENGTH /\ file_hash.is_hex

\* Faulty form of path_accepted: no test for "..".
lexical_path_accepted(path, watch_root) == is_relative_to(path, watch_root)

path_accepted(path, watch_root) ==
    /\ is_relative_to(path, watch_root)
    /\ \A i \in DOMAIN relative_to(path, watch_root) :
            relative_to(path, watch_root)[i] # ".."

\* apply_shard raises unless the residue is one of the modulus.
shard_accepted(sender_index, shard_modulus) ==
    shard_modulus >= 1 /\ sender_index \in 0 .. shard_modulus - 1

manifest_accepted(source_file, sender_index, shard_modulus, watch_root) ==
    /\ source_file.size_bytes >= 0
    /\ file_hash_accepted(source_file.file_hash)
    /\ path_accepted(source_file.path, watch_root)
    /\ shard_accepted(sender_index, shard_modulus)

\* Manifest.block_bytes holds the size of a symbol, whatever its name says.
manifest_block_bytes(fec) == fec.symbol_bytes

\* sender_id holds the residue (apply_shard).  Left out: sender_bps_limit,
\* always UNSET_SENDER_BPS_LIMIT, and the hash, which is opaque.
build_manifest(source_file, fec, session_id, sender_index, watch_root) ==
    [session_id   |-> session_id,
     filepath     |-> relative_to(source_file.path, watch_root),
     file_size    |-> source_file.size_bytes,
     k            |-> fec.k,
     n            |-> fec.n,
     block_bytes  |-> manifest_block_bytes(fec),
     total_blocks |-> calculate_block_count(source_file.size_bytes, fec),
     sender_id    |-> sender_index]

build_assign_session(manifest, shard_modulus, target_host, target_port, source_path) ==
    [manifest      |-> manifest,
     total_senders |-> shard_modulus,
     target_host   |-> target_host,
     target_port   |-> target_port,
     source_path   |-> source_path]
=============================================================================
