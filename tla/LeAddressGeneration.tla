-------------------------- MODULE LeAddressGeneration --------------------------
(***************************************************************************)
(* Address material of src/gd/hci/le_address_manager.cc at the byte level: *)
(* SetPrivacyPolicyForInitiatorAddress (the static-address validation),    *)
(* the address and delay chosen by rotate_random_address (generate_rpa,    *)
(* generate_nrpa, get_next_private_address_interval_ms) and                *)
(* GetAnotherAddress.  The pause/resume barrier around rotation is         *)
(* LeAddressManager; here each rotation is one step.                       *)
(*                                                                         *)
(* An address is <<address[0], ..., address[5]>>: address[5] is the most  *)
(* significant byte.  Random draws come from small sets chosen to hit the  *)
(* masks, the degenerate patterns and the public address.                  *)
(***************************************************************************)
EXTENDS Naturals, Sequences, Bitwise

CONSTANTS
    PublicAddress,      \* public_address_
    FixedAddresses,     \* addresses an integrator may pass as fixed_address
    RandomAddresses,    \* draws of os::GenerateRandom<6>()
    RandomPrands,       \* draws of os::GenerateRandom<3>()
    FixupDraws,         \* values os::GenerateRandom() may return for a fix-up
    MinRotation,        \* minimum_rotation_time_ (ms)
    MaxRotation,        \* maximum_rotation_time_ (ms)
    RandomMs,           \* values os::GenerateRandom() may return for the delay
    Ah(_)               \* the first 3 bytes of aes_128(rotation_irk_, prand)

Policies == {"USE_PUBLIC_ADDRESS", "USE_STATIC_ADDRESS",
             "USE_NON_RESOLVABLE_ADDRESS", "USE_RESOLVABLE_ADDRESS"}
Rotating == {"USE_NON_RESOLVABLE_ADDRESS", "USE_RESOLVABLE_ADDRESS"}

BLE_ADDR_MASK == 192            \* 0xc0
BLE_RESOLVE_ADDR_MSB == 64      \* 0x40
LowBits == 255 - BLE_ADDR_MASK  \* ~BLE_ADDR_MASK cut to 8 bits: 0x3f
NoAddress == <<>>

\* Mutant of the fix-up byte: modulo 0xFF, which can give 0xFF.
FixupByteMod255(d) == (d % 255) + 1

\* (uint8_t)(os::GenerateRandom() % 0xFE + 1)
FixupByte(d) == (d % 254) + 1

\* A random part whose lower bytes are all 0x00 and whose masked top byte
\* is 0x00, or all 0xFF with a masked top byte of 0x3F.
Degenerate(bs) ==
    LET low == SubSeq(bs, 1, Len(bs) - 1)
        top == bs[Len(bs)]
    IN \/ (\A i \in DOMAIN low : low[i] = 0) /\ top = 0
       \/ (\A i \in DOMAIN low : low[i] = 255) /\ top = LowBits

\* The addresses the first byte can be replaced with.
Refixed(bs) == {[bs EXCEPT ![1] = FixupByte(d)] : d \in FixupDraws}

\* Mask the type bits of the top byte; replace the first byte of a
\* degenerate result.
MaskAndFix(bs) ==
    LET masked == [bs EXCEPT ![Len(bs)] = @ & LowBits]
    IN IF Degenerate(masked) THEN Refixed(masked) ELSE {masked}

\* generate_rpa: the masked and fixed prand with the resolvable bit set,
\* below the hash of that final prand.
GenerateRpa(prand) ==
    { LET p == [q EXCEPT ![3] = @ | BLE_RESOLVE_ADDR_MSB] IN Ah(p) \o p : q \in MaskAndFix(prand) }

\* while (address == public_address_) redraw address[0]: the addresses
\* the loop can end with.
AvoidPublic(a) == IF a = PublicAddress THEN Refixed(a) \ {PublicAddress} ELSE {a}

\* generate_nrpa: mask and fix six random bytes, then avoid the public
\* address.
GenerateNrpa(random) == UNION {AvoidPublic(a) : a \in MaskAndFix(random)}

\* get_next_private_address_interval_ms: min + random % (max - min).
NextInterval(r) == MinRotation + (r % (MaxRotation - MinRotation))

\* The modulo divides by zero when the two rotation times are equal.
IntervalDividesByZero == MaxRotation - MinRotation = 0

\* Mutant of the static-address checks: only the top bit tested.
StaticAddressTopBitOnly(a) ==
    /\ (a[6] & 128) = 128
    /\ ~((\A i \in 1..5 : a[i] = 0) /\ a[6] = BLE_ADDR_MASK)
    /\ ~(\A i \in 1..6 : a[i] = 255)

\* The static-address checks of SetPrivacyPolicyForInitiatorAddress.
StaticAddressAccepted(a) ==
    /\ (a[6] & BLE_ADDR_MASK) = BLE_ADDR_MASK
    /\ ~((\A i \in 1..5 : a[i] = 0) /\ a[6] = BLE_ADDR_MASK)
    /\ ~(\A i \in 1..6 : a[i] = 255)

VARIABLES
    policy,         \* address_policy_
    le_address,     \* le_address_
    delay,          \* delay of the last address_rotation_alarm_->Schedule
    another,        \* the last address GetAnotherAddress returned
    fatal           \* "none", or the reason the process aborted

vars == <<policy, le_address, delay, another, fatal>>

Init ==
    /\ policy = "POLICY_NOT_SET"
    /\ le_address = NoAddress
    /\ delay = 0
    /\ another = NoAddress
    /\ fatal = "none"

\* SetPrivacyPolicyForInitiatorAddress, called once with a policy and a
\* fixed address: a malformed static address is LOG_ALWAYS_FATAL.
SetPrivacyPolicyForInitiatorAddress(p, fixed) ==
    /\ policy = "POLICY_NOT_SET"
    /\ policy' = p
    /\ IF p = "USE_STATIC_ADDRESS" /\ ~StaticAddressAccepted(fixed)
       THEN fatal' = "malformed static address" /\ UNCHANGED le_address
       ELSE /\ le_address' = IF p \in Rotating THEN NoAddress ELSE fixed
            /\ UNCHANGED fatal
    /\ UNCHANGED <<delay, another>>

\* rotate_random_address: schedule the next rotation, then generate and
\* adopt an address for the policy.  An integer division by zero kills
\* the process with SIGFPE.
rotate_random_address ==
    /\ policy \in Rotating
    /\ \E r \in RandomMs :
         IF IntervalDividesByZero
         THEN fatal' = "SIGFPE" /\ UNCHANGED <<delay, le_address>>
         ELSE /\ delay' = NextInterval(r)
              /\ UNCHANGED fatal
              /\ IF policy = "USE_RESOLVABLE_ADDRESS"
                 THEN \E prand \in RandomPrands :
                         \E a \in GenerateRpa(prand) : le_address' = a
                 ELSE \E random \in RandomAddresses :
                         \E a \in GenerateNrpa(random) : le_address' = a
    /\ UNCHANGED <<policy, another>>

\* GetAnotherAddress: an RPA under either rotating policy.
GetAnotherAddress ==
    /\ policy \in Rotating
    /\ \E prand \in RandomPrands :
         \E a \in GenerateRpa(prand) : another' = a
    /\ UNCHANGED <<policy, le_address, delay, fatal>>

Next ==
    /\ fatal = "none"
    /\ \/ \E p \in Policies, fixed \in FixedAddresses :
            SetPrivacyPolicyForInitiatorAddress(p, fixed)
       \/ rotate_random_address
       \/ GetAnotherAddress

Spec == Init /\ [][Next]_vars


-----------------------------------------------------------------------------
(* Reference formats of the Core specification, on the 48 address bits.    *)

\* Bit k of the address, bit 0 the least significant bit of address[0].
Bit(a, k) == (a[(k \div 8) + 1] \div (2 ^ (k % 8))) % 2

\* The two most significant bits, and whether the 46 below them (the
\* random part) are all equal.
TypeBits(a) == <<Bit(a, 47), Bit(a, 46)>>
Uniform(a, n) == \A k \in 0..n - 1 : Bit(a, k) = Bit(a, 0)

IsStaticRandom(a) == TypeBits(a) = <<1, 1>> /\ ~Uniform(a, 46)
IsNonResolvable(a) == TypeBits(a) = <<0, 0>> /\ ~Uniform(a, 46)

\* A resolvable address: type bits 01 over a 22-bit random part of prand
\* that is not all 0 or all 1, below the hash of prand (address[3..5]).
IsResolvable(a) ==
    /\ TypeBits(a) = <<0, 1>>
    /\ ~(\A k \in 24..45 : Bit(a, k) = Bit(a, 24))
    /\ SubSeq(a, 1, 3) = Ah(SubSeq(a, 4, 6))

TypeOK ==
    /\ policy \in Policies \cup {"POLICY_NOT_SET"}
    /\ le_address \in {NoAddress} \cup [1..6 -> 0..255]
    /\ another \in {NoAddress} \cup [1..6 -> 0..255]
    /\ delay \in Nat

\* The address rotate_random_address adopts has the format of its policy:
\* generate_rpa and generate_nrpa mask the type bits and replace a
\* degenerate random part, and the RPA hash is of the final prand.
RotatedAddressWellFormed ==
    le_address # NoAddress =>
        /\ policy = "USE_RESOLVABLE_ADDRESS" => IsResolvable(le_address)
        /\ policy = "USE_NON_RESOLVABLE_ADDRESS" => IsNonResolvable(le_address)

\* A static address that survives SetPrivacyPolicyForInitiatorAddress is a
\* well-formed static random address.
StaticAddressWellFormed ==
    policy = "USE_STATIC_ADDRESS" /\ fatal = "none" => IsStaticRandom(le_address)

=============================================================================
