-------------------------- MODULE SessionPlanProofs --------------------------
(***************************************************************************)
(* For every file size, every FEC parameters and every list of senders,    *)
(* the senders of a session together transmit every byte once, in the      *)
(* blocks compute_block_plans lists, and name the file by a path that stays *)
(* below the directory it is written to.                                   *)
(***************************************************************************)
EXTENDS SessionPlan, PlanningProofs

\* The inductive invariant: the messages are those of the plan, and only
\* senders that were given one have transmitted.
PlanInv ==
    /\ source.path \in Seq(STRING)
    /\ source.size_bytes \in Nat
    /\ IsFec(fec)
    /\ roster \in Seq(Int)
    /\ base_port \in Int
    /\ phase \in {"planning", "planned", "error"}
    /\ transmitted \subseteq DOMAIN messages
    /\ phase = "planned" => inputs_accepted /\ messages = plan_messages
    /\ phase # "planned" => messages = <<>>

\* What load_config accepts has positive FEC parameters and a base port, from
\* the file or from the environment.
LEMMA AcceptedConfig ==
    ASSUME NEW f, IsFile(f), NEW e, IsEnvironment(e), accepted(f, e)
    PROVE  IsFec(app_config(f, e).fec) /\ app_config(f, e).base_port \in Int
<1>1. \A i \in {5, 7, 9} : i \in Steps /\ convert(f, e, ENV_OVERRIDES[i]) = "ok"
  BY DEF accepted, Steps, ENV_OVERRIDES
<1>2. /\ ENV_OVERRIDES[5].key = "k" /\ ENV_OVERRIDES[5].required
      /\ ENV_OVERRIDES[7].key = "symbol_bytes" /\ ENV_OVERRIDES[7].required
      /\ ENV_OVERRIDES[9].key = "base_port"
  BY DEF ENV_OVERRIDES
<1>3. given(f, e, "k") /\ given(f, e, "symbol_bytes")
  BY <1>1, <1>2 DEF convert
<1>4. \A key \in {"k", "symbol_bytes"} : raw(f, e, key) \in RawValue
  BY <1>3 DEF given, raw, IsFile, IsEnvironment, IsSource
<1>5. raw(f, e, "base_port").number \in Int
  <2>1. DEFAULTS["base_port"].number \in Int
    BY DEF DEFAULTS, Number
  <2> QED
    BY <2>1 DEF raw, IsFile, IsEnvironment, IsSource, RawValue
<1>6. is_valid(app_config(f, e))
  BY DEF accepted, validate_config
<1>7. app_config(f, e).fec.k > 0 /\ app_config(f, e).fec.symbol_bytes > 0
  BY <1>6 DEF is_valid
<1>8. /\ app_config(f, e).fec.k = raw(f, e, "k").number
      /\ app_config(f, e).fec.symbol_bytes = raw(f, e, "symbol_bytes").number
      /\ app_config(f, e).base_port = raw(f, e, "base_port").number
  BY DEF app_config
<1> QED
  BY <1>4, <1>5, <1>7, <1>8 DEF IsFec, RawValue

LEMMA PlanInvInit == Init => PlanInv
<1> SUFFICES ASSUME Init PROVE PlanInv
  OBVIOUS
<1>1. PICK f \in ConfigFiles, e \in Environments :
          /\ accepted(f, e)
          /\ fec = app_config(f, e).fec
          /\ base_port = app_config(f, e).base_port
  BY DEF Init
<1>2. IsFec(fec) /\ base_port \in Int
  BY <1>1, AcceptedConfig, PlanAssumption
<1> QED
  BY <1>2, PlanAssumption DEF Init, PlanInv

LEMMA PlanInvStep == PlanInv /\ [Next]_vars => PlanInv'
<1> SUFFICES ASSUME PlanInv, [Next]_vars PROVE PlanInv'
  OBVIOUS
<1>1. CASE Plan
  <2>1. UNCHANGED <<source, fec, roster, base_port, transmitted>>
    BY <1>1 DEF Plan
  <2>2. inputs_accepted' /\ messages' = plan_messages'
    BY <1>1, <2>1 DEF Plan, inputs_accepted, plan_messages, total_blocks
  <2>3. transmitted = {}
    BY <1>1 DEF Plan, PlanInv
  <2> QED
    BY <1>1, <2>1, <2>2, <2>3 DEF Plan, PlanInv, IsFec
<1>2. CASE Reject
  BY <1>2 DEF Reject, PlanInv, IsFec
<1>3. CASE \E i \in DOMAIN messages : Transmit(i)
  BY <1>3 DEF Transmit, Planned, PlanInv, IsFec, inputs_accepted, plan_messages, total_blocks
<1>4. CASE UNCHANGED vars
  BY <1>4 DEF vars, PlanInv, IsFec, inputs_accepted, plan_messages, total_blocks
<1> QED
  BY <1>1, <1>2, <1>3, <1>4 DEF Next

\* What sender i reads in its message, in terms of the plan.
LEMMA SenderView ==
    ASSUME PlanInv, phase = "planned", NEW i \in DOMAIN roster
    PROVE  LET w == block_size(fec)
               shards == derive_shard_assignments(total_blocks, roster, base_port)
           IN  /\ SenderBlocks(i) = shards[i].assigned_blocks
               /\ \A b \in Int : SenderBytes(i, b) =
                     b * w .. minimum((b + 1) * w, source.size_bytes) - 1
<1>1. messages[i] = plan_messages[i]
  BY DEF PlanInv
<1>2. /\ messages[i].total_senders = Len(roster)
      /\ messages[i].manifest.sender_id = i - 1
      /\ messages[i].manifest.total_blocks = total_blocks
      /\ messages[i].manifest.file_size = source.size_bytes
      /\ messages[i].manifest.k * messages[i].manifest.block_bytes = block_size(fec)
  BY <1>1 DEF plan_messages, build_assign_session, build_manifest, derive_shard_assignments,
              residue_at, total_blocks, block_size, manifest_block_bytes, PlanInv
<1>3. derive_shard_assignments(total_blocks, roster, base_port)[i].assigned_blocks
         = {b \in 0 .. total_blocks - 1 : b % Len(roster) = i - 1}
  BY DEF derive_shard_assignments, blocks_for_shard, residue_at, PlanInv
<1> QED
  BY <1>2, <1>3 DEF SenderBlocks, SenderBytes

LEMMA PlannedByteSentOnce ==
    ASSUME PlanInv, phase = "planned", NEW x \in 0 .. source.size_bytes - 1
    PROVE  /\ TimesSent(x) \in {0, 1}
           /\ transmitted = DOMAIN roster => TimesSent(x) = 1
<1> DEFINE w == block_size(fec)
           size == source.size_bytes
           shards == derive_shard_assignments(total_blocks, roster, base_port)
           Bytes(b) == b * w .. minimum((b + 1) * w, size) - 1
           Sent == {p \in transmitted \X (0 .. total_blocks - 1) :
                       p[2] \in SenderBlocks(p[1]) /\ x \in SenderBytes(p[1], p[2])}
<1>1. size \in Nat /\ IsFec(fec) /\ roster \in Seq(Int) /\ roster # <<>> /\ base_port \in Int
  BY DEF PlanInv, inputs_accepted, shard_inputs_accepted
<1>2. total_blocks \in Nat
  BY <1>1, BlockCountIsCeiling DEF total_blocks
<1>3. DOMAIN shards = DOMAIN roster /\ transmitted \subseteq DOMAIN roster
  <2>1. DOMAIN messages = DOMAIN roster
    BY DEF PlanInv, plan_messages, derive_shard_assignments
  <2> QED
    BY <2>1 DEF PlanInv, derive_shard_assignments
<1>4. PICK b \in 0 .. total_blocks - 1 :
          x \in Bytes(b) /\ \A c \in 0 .. total_blocks - 1 : x \in Bytes(c) => c = b
  BY <1>1, ByteInOneBlock DEF total_blocks
<1>5. PICK i \in DOMAIN shards :
          /\ b \in shards[i].assigned_blocks
          /\ \A j \in DOMAIN shards : b \in shards[j].assigned_blocks => j = i
  <2> HIDE DEF Bytes
  <2> QED
    BY <1>1, <1>2, <1>4, BlockInOneShard
<1>6. \A j \in DOMAIN roster, c \in 0 .. total_blocks - 1 :
          c \in SenderBlocks(j) /\ x \in SenderBytes(j, c) <=> j = i /\ c = b
  <2> SUFFICES ASSUME NEW j \in DOMAIN roster, NEW c \in 0 .. total_blocks - 1
               PROVE  c \in SenderBlocks(j) /\ x \in SenderBytes(j, c) <=> j = i /\ c = b
    OBVIOUS
  <2>1. SenderBlocks(j) = shards[j].assigned_blocks
    BY SenderView
  <2>2. SenderBytes(j, c) = Bytes(c)
    BY <1>2, SenderView
  <2> HIDE DEF shards, Bytes
  <2> QED
    BY <1>3, <1>4, <1>5, <2>1, <2>2
<1> HIDE DEF shards, Bytes
<1>7. Sent = IF i \in transmitted THEN {<<i, b>>} ELSE {}
  BY <1>3, <1>4, <1>5, <1>6
<1>8. Cardinality(Sent) = IF i \in transmitted THEN 1 ELSE 0
  BY <1>7, FS_Singleton, FS_EmptySet
<1>9. TimesSent(x) = Cardinality(Sent)
  BY DEF TimesSent
<1> QED
  BY <1>3, <1>5, <1>8, <1>9

LEMMA PlanInvImplies == PlanInv => EveryByteSentOnce
<1> SUFFICES ASSUME PlanInv, NEW x \in 0 .. source.size_bytes - 1
             PROVE  /\ TimesSent(x) <= 1
                    /\ (phase = "planned" /\ transmitted = DOMAIN roster) => TimesSent(x) = 1
  BY DEF EveryByteSentOnce
<1>1. CASE phase = "planned"
  BY <1>1, PlannedByteSentOnce
<1>2. CASE phase # "planned"
  <2>1. transmitted = {}
    BY <1>2 DEF PlanInv
  <2>2. TimesSent(x) = Cardinality({})
    BY <2>1 DEF TimesSent
  <2> QED
    BY <1>2, <2>2, FS_EmptySet
<1> QED
  BY <1>1, <1>2

(***************************************************************************)
(* The end-to-end theorem: whichever senders have transmitted, no byte was *)
(* sent twice, and when all have, none is missing.                         *)
(***************************************************************************)
THEOREM EveryByteOnce == Spec => []EveryByteSentOnce
BY PlanInvInit, PlanInvStep, PlanInvImplies, PTL DEF Spec

(***************************************************************************)
(* compute_block_plans.                                                    *)
(***************************************************************************)

\* The plans are not empty, follow each other, and end where the file ends.
LEMMA PlansTileFile ==
    ASSUME NEW f, IsFec(f), NEW size \in Nat
    PROVE  LET plans == compute_block_plans(size, f)
           IN  /\ \A i \in DOMAIN plans : plans[i].start_byte < plans[i].end_byte
               /\ \A i \in 2 .. Len(plans) : plans[i].start_byte = plans[i - 1].end_byte
               /\ plans # <<>> => plans[Len(plans)].end_byte = size
<1> DEFINE plans == compute_block_plans(size, f)
<1>1. PICK w \in Nat : w = block_size(f) /\ w > 0
  BY BlockSizePositive
<1>2. PICK n \in Nat : n = calculate_block_count(size, f) /\ size <= w * n
                       /\ (n > 0 => w * (n - 1) < size)
  BY <1>1, BlockCountIsCeiling
<1>3. plans = [i \in 1 .. n |-> [block_id |-> i - 1, start_byte |-> (i - 1) * w,
                                 end_byte |-> minimum(i * w, size)]]
  BY <1>1, <1>2 DEF compute_block_plans, block_end
<1>4. DOMAIN plans = 1 .. n /\ Len(plans) = n
  <2> HIDE DEF plans
  <2> QED
    BY <1>2, <1>3
<1>5. \A i \in 1 .. n : plans[i].start_byte = (i - 1) * w /\ plans[i].end_byte = minimum(i * w, size)
  BY <1>3
<1> HIDE DEF plans
\* Every block but the last is whole.
<1>6. \A i \in 1 .. n : (i - 1) * w < size /\ (i < n => i * w < size)
  <2> SUFFICES ASSUME NEW i \in 1 .. n
               PROVE  (i - 1) * w < size /\ (i < n => i * w < size)
    OBVIOUS
  <2>1. (i - 1) * w = w * (i - 1) /\ i * w = w * i
    BY <1>1, Products
  <2>2. w * (i - 1) <= w * (n - 1) /\ (i < n => w * i <= w * (n - 1))
    BY <1>1, <1>2, Multiplied
  <2>3. w * (n - 1) \in Int /\ w * (i - 1) \in Int /\ w * i \in Int
    BY <1>1, <1>2
  <2> QED
    BY <1>2, <2>1, <2>2, <2>3
<1>7. \A i \in 1 .. n : (i - 1) * w \in Int /\ i * w \in Int /\ (i - 1) * w < i * w
  <2> SUFFICES ASSUME NEW i \in 1 .. n
               PROVE  (i - 1) * w \in Int /\ i * w \in Int /\ (i - 1) * w < i * w
    OBVIOUS
  <2>1. (i - 1) * w = w * (i - 1) /\ i * w = w * i /\ w * (i - 1) \in Int /\ w * i \in Int
    BY <1>1, Products
  <2>2. w * (i - 1) + w <= w * i
    BY <1>1, MultipleStep
  <2> QED
    BY <1>1, <2>1, <2>2
<1>8. \A i \in 1 .. n : plans[i].start_byte < plans[i].end_byte
  <2> SUFFICES ASSUME NEW i \in 1 .. n PROVE plans[i].start_byte < plans[i].end_byte
    OBVIOUS
  <2>1. (i - 1) * w < minimum(i * w, size)
    BY <1>6, <1>7 DEF minimum
  <2> QED
    BY <1>5, <2>1
<1>9. \A i \in 2 .. n : plans[i].start_byte = plans[i - 1].end_byte
  <2> SUFFICES ASSUME NEW i \in 2 .. n PROVE plans[i].start_byte = plans[i - 1].end_byte
    OBVIOUS
  <2>1. PICK j \in 1 .. n : j = i - 1
    BY <1>2
  <2>2. minimum(j * w, size) = j * w
    BY <1>2, <1>6, <1>7, <2>1 DEF minimum
  <2> QED
    BY <1>5, <2>1, <2>2
<1>10. n > 0 => plans[n].end_byte = size
  <2> SUFFICES ASSUME n > 0 PROVE plans[n].end_byte = size
    OBVIOUS
  <2>1. n * w = w * n /\ w * n \in Int
    BY <1>1, <1>2, Products
  <2>2. minimum(n * w, size) = size
    BY <1>2, <2>1 DEF minimum
  <2> QED
    BY <1>2, <1>5, <2>2
<1>11. plans # <<>> => n > 0
  BY <1>2, <1>3
<1> QED
  BY <1>4, <1>8, <1>9, <1>10, <1>11 DEF plans

\* The positions with a message are those of the roster.
LEMMA PlannedRoster ==
    ASSUME PlanInv, NEW i \in Planned
    PROVE  phase = "planned" /\ i \in DOMAIN roster
BY DEF Planned, PlanInv, plan_messages, derive_shard_assignments

\* A sender reads, for a block of its shard, the bytes of that block's plan.
LEMMA SenderReadsPlan ==
    ASSUME PlanInv, NEW i \in Planned, NEW b \in SenderBlocks(i)
    PROVE  LET plans == compute_block_plans(source.size_bytes, fec)
           IN  SenderBytes(i, b) = plans[b + 1].start_byte .. plans[b + 1].end_byte - 1
<1> DEFINE w == block_size(fec)
<1>1. phase = "planned" /\ i \in DOMAIN roster
  BY PlannedRoster
<1>2. total_blocks \in Nat
  BY BlockCountIsCeiling DEF PlanInv, total_blocks
<1>3. b \in 0 .. total_blocks - 1
  BY <1>1, SenderView DEF derive_shard_assignments, blocks_for_shard
<1>4. SenderBytes(i, b) = b * w .. minimum((b + 1) * w, source.size_bytes) - 1
  BY <1>1, <1>2, <1>3, SenderView
<1>5. PICK c \in 1 .. total_blocks : c = b + 1 /\ c - 1 = b
  BY <1>2, <1>3
<1>6. /\ compute_block_plans(source.size_bytes, fec)[c].start_byte = b * w
      /\ compute_block_plans(source.size_bytes, fec)[c].end_byte = minimum(c * w, source.size_bytes)
  BY <1>5 DEF compute_block_plans, block_end, total_blocks
<1> QED
  BY <1>4, <1>5, <1>6

LEMMA PlanInvTransmitted == PlanInv => BlockPlansAreTransmitted
<1> SUFFICES ASSUME PlanInv PROVE BlockPlansAreTransmitted
  OBVIOUS
<1>1. IsFec(fec) /\ source.size_bytes \in Nat
  BY DEF PlanInv
<1> QED
  BY <1>1, PlansTileFile, SenderReadsPlan DEF BlockPlansAreTransmitted

(***************************************************************************)
(* The blocks the senders transmit are those of compute_block_plans: for   *)
(* every size and every FEC parameters the plans tile the file without     *)
(* gap, overlap or empty block, and each sender reads the planned bytes.   *)
(***************************************************************************)
THEOREM PlansTransmitted == Spec => []BlockPlansAreTransmitted
BY PlanInvInit, PlanInvStep, PlanInvTransmitted, PTL DEF Spec

(***************************************************************************)
(* The floating-point block count is the exact one in every state, for     *)
(* every file that fits the significand: the float quotient can neither    *)
(* drop the last block nor add an empty one.                               *)
(***************************************************************************)
THEOREM CountExactInFloats == Spec => []BlockCountExactInFloats
<1>1. PlanInv => BlockCountExactInFloats
  <2> SUFFICES ASSUME PlanInv, source.size_bytes < 2^FloatBits
               PROVE  float_ceil_division(source.size_bytes, block_size(fec), FloatBits)
                        = total_blocks
    BY DEF BlockCountExactInFloats
  <2>1. source.size_bytes \in Nat /\ IsFec(fec)
    BY DEF PlanInv
  <2>2. PICK size \in Nat : size = source.size_bytes
    BY <2>1
  <2>3. PICK w \in Nat \ {0} : w = block_size(fec)
    BY <2>1, BlockSizePositive
  <2>4. total_blocks = (size + w - 1) \div w
    BY <2>2, <2>3 DEF total_blocks, calculate_block_count
  <2>5. float_ceil_division(size, w, FloatBits) = (size + w - 1) \div w
    BY <2>2, FloatCeilingExact, PlanAssumption
  <2> QED
    BY <2>2, <2>3, <2>4, <2>5
<1> QED
  BY <1>1, PlanInvInit, PlanInvStep, PTL DEF Spec

(***************************************************************************)
(* The manifest's file path.                                               *)
(***************************************************************************)

\* A path without ".." goes down at every part.
LEMMA DepthGrows ==
    ASSUME NEW path \in Seq(STRING), \A j \in DOMAIN path : path[j] # "..",
           NEW n \in DOMAIN path
    PROVE  Depth(path, n) >= 0
<1> DEFINE Down == {j \in 1 .. n : path[j] # ".."}
           Up   == {j \in 1 .. n : path[j] = ".."}
<1>1. Up = {}
  OBVIOUS
<1>2. IsFiniteSet(1 .. n) /\ Down \subseteq 1 .. n
  BY FS_Interval
<1>3. Cardinality(Down) \in Nat
  BY <1>2, FS_Subset, FS_CardinalityType
<1>4. Cardinality(Up) = 0
  BY <1>1, FS_EmptySet
<1>5. Depth(path, n) = Cardinality(Down) - Cardinality(Up)
  BY DEF Depth
<1> QED
  BY <1>3, <1>4, <1>5

LEMMA PlanInvInside == PlanInv => FilepathStaysInside
<1> SUFFICES ASSUME PlanInv, NEW i \in Planned,
                    NEW n \in DOMAIN messages[i].manifest.filepath
             PROVE  Depth(messages[i].manifest.filepath, n) >= 0
  BY DEF FilepathStaysInside
<1>1. phase = "planned" /\ i \in DOMAIN roster
  BY PlannedRoster
<1>2. messages[i].manifest.filepath = relative_to(source.path, WatchRoot)
  BY <1>1 DEF PlanInv, plan_messages, build_assign_session, build_manifest,
              derive_shard_assignments
<1>3. path_accepted(source.path, WatchRoot)
  BY <1>1 DEF PlanInv, inputs_accepted, manifest_accepted
<1>4. relative_to(source.path, WatchRoot) \in Seq(STRING)
  BY <1>3, PlanAssumption DEF PlanInv, relative_to, path_accepted, is_relative_to
<1> QED
  BY <1>2, <1>3, <1>4, DepthGrows DEF path_accepted

(***************************************************************************)
(* Whatever the path and the watched directory, the filepath put into a    *)
(* manifest never climbs above the receiver's output directory: the check  *)
(* in build_manifest is enough, although relative_to resolves no "..".     *)
(***************************************************************************)
THEOREM FilepathInside == Spec => []FilepathStaysInside
BY PlanInvInit, PlanInvStep, PlanInvInside, PTL DEF Spec
=============================================================================
