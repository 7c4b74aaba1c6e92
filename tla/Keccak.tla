------------------------------- MODULE Keccak -------------------------------
(***************************************************************************)
(* What the hashes of the scripts and of the account are computed from.    *)
(*                                                                         *)
(* Bytes are a sequence of 32-byte words: a number, a text, a type hash or *)
(* a digest.  keccak256 is injective and its digests are no numbers a      *)
(* caller could give (the usual idealisation of a hash function), so a     *)
(* digest is simply the record of what was hashed.  A signature over a     *)
(* digest is good for that digest and the key that made it, alone.         *)
(***************************************************************************)
EXTENDS Integers, Sequences

CONSTANTS
  HALF,       (* 2^128: signatures and the verifying contract are cut there   *)
  FELT,       (* the felt252 values are 0..FELT-1                             *)
  WORD,       (* 2^256: the numbers that fit 32 bytes are 0..WORD-1           *)
  ChainIds,   (* chain name -> the felt its ASCII letters make                *)
  ANY_CALLER, (* the felt 'ANY_CALLER'                                        *)
  YParity(_, _)  (* key, digest -> 1 if the signature's y coordinate is odd   *)

ASSUME KeccakAssumption ==
  /\ HALF \in Nat /\ FELT \in Nat /\ WORD \in Nat
  /\ 0 < HALF /\ HALF < FELT /\ FELT < WORD
  /\ ANY_CALLER \in 0..FELT - 1
  /\ \A n \in DOMAIN ChainIds : ChainIds[n] \in 0..FELT - 1
  /\ \A m, n \in DOMAIN ChainIds : ChainIds[m] = ChainIds[n] => m = n

Uint(n)         == [uint |-> n]
Text(s)         == [text |-> s]
TypeHash(t)     == [type |-> t]
keccak256(data) == [keccak |-> data]

\* The scripts and the account spell these out alike.
EIP712_DOMAIN_TYPE_HASH        == TypeHash("EIP712Domain")
CALL_TYPE_HASH                 == TypeHash("Call")
OUTSIDE_EXECUTION_TYPE_HASH    == TypeHash("ArcxExecution")
TRANSACTION_METADATA_TYPE_HASH == TypeHash("TransactionMetadata")
TRANSACTION_TYPE_HASH          == TypeHash("Transaction")
VERSION_HASH                   == keccak256(<<Text("2")>>)

\* The two bytes 0x19 0x01 in front of the two words of an EIP-712 message.
Eip191 == [bytes |-> "1901"]

\* A number is hashed as 32 bytes or not at all.
IsWord(n) == n \in 0..WORD - 1
IsFelt(n) == n \in 0..FELT - 1

\* The number r or s of the signature of key over digest, cut in two: felts the
\* account puts together again.
Part(part, key, digest) == [part |-> part, key |-> key, digest |-> digest]

IsYOdd(key, digest) == YParity(key, digest) = 1

\* Recovery answers the key if r, s and the parity belong to one signature over
\* digest, and nobody's address or none otherwise.
Recovers(digest, signature, key) ==
  /\ signature.r = [high |-> Part("r_high", key, digest), low |-> Part("r_low", key, digest)]
  /\ signature.s = [high |-> Part("s_high", key, digest), low |-> Part("s_low", key, digest)]
  /\ signature.y_parity = IsYOdd(key, digest)
=============================================================================
