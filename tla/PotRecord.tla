----------------------------- MODULE PotRecord -----------------------------
(***************************************************************************)
(* The records and their verification: pot_record_v2.ts, pot_record_v08.ts *)
(* and the codec of the Rust verifiers.                                    *)
(*                                                                         *)
(* Octets are abstracted to named fields.  A digest is the value it digests*)
(* and a signature the key with the value signed, so that what is modelled *)
(* is which fields each of them covers.  A verifier is a sequence of tests *)
(* in the order of the code and answers the first that fails.              *)
(***************************************************************************)
EXTENDS Integers, Sequences

CONSTANTS
  MaxU64,     \* 2^64 - 1
  MaxU32,     \* 2^32 - 1
  Reserved,   \* RESERVED_ERROR_BOUND, the greatest 24-bit value
  NoPolicy    \* no freshness policy; also no holder key and no content

ASSUME RecordAssumption ==
  /\ {MaxU64, MaxU32, Reserved} \subseteq Nat
  /\ MaxU32 <= MaxU64
  /\ NoPolicy \notin [now : Nat, skew : Nat]

Ed25519      == 1
SharedSecret == 2
HolderTypes  == {Ed25519, SharedSecret}

(* tests is a sequence of pairs <<fails, reason>>.                         *)
FirstFailure(tests) ==
  IF \A i \in DOMAIN tests : ~tests[i][1] THEN "intact"
  ELSE LET first == CHOOSE i \in DOMAIN tests :
                      tests[i][1] /\ \A j \in 1 .. i - 1 : ~tests[j][1]
       IN tests[first][2]

Fields(r, names) == [n \in names |-> r[n]]
Distance(a, b)   == IF a >= b THEN a - b ELSE b - a
Sign(key, value) == [by |-> key, over |-> value]

----------------------------------------------------------------------------
(* Version 2, 180 octets.  The integrity tag covers octets 0-79, the       *)
(* issuer's signature those, the tag and the issuer key id.                *)

HeadV2   == {"version", "holderType", "alg", "ts", "disp", "ctx", "nonce", "holder"}
PrefixV2 == HeadV2 \cup {"tag", "keyId"}

EncodableV2(f) ==
  /\ f.holderType \in HolderTypes /\ f.alg = 1
  /\ f.ts \in 0 .. MaxU64 /\ f.disp \in 0 .. MaxU32 /\ f.keyId \in 0 .. MaxU32

EncodeV2(f, key) ==
  LET head   == [n \in HeadV2 |-> IF n = "version" THEN 2 ELSE f[n]]
      prefix == [n \in PrefixV2 |-> CASE n = "tag"   -> head
                                      [] n = "keyId" -> f.keyId
                                      [] OTHER       -> head[n]]
  IN [n \in PrefixV2 \cup {"len", "sig"} |->
        CASE n = "len" -> 180 [] n = "sig" -> Sign(key, prefix) [] OTHER -> prefix[n]]

WithinSkew(ts, bound, fresh) == Distance(ts, fresh.now) <= fresh.skew + bound

(* Mutant of ForgedV2: the signature is compared over octets 0-79 only.    *)
ForgedV2Head(r, key) == r.sig.by # key \/ Fields(r.sig.over, HeadV2) # Fields(r, HeadV2)

ForgedV2(r, key) == r.sig # Sign(key, Fields(r, PrefixV2))

VerifyV2(r, key, fresh) ==
  FirstFailure(<<
    <<r.len # 180, "size">>,
    <<r.version # 2, "unknown version">>,
    <<r.holderType \notin HolderTypes, "unsupported holder_auth_type">>,
    <<r.alg # 1, "unsupported alg_id">>,
    <<r.tag # Fields(r, HeadV2), "integrity mismatch">>,
    <<fresh # NoPolicy /\ ~WithinSkew(r.ts, r.disp, fresh), "freshness window exceeded">>,
    <<ForgedV2(r, key), "issuer signature invalid">> >>)

(* The holder's proof binds a record to a live TLS channel, through what   *)
(* the channel exports for a context that depends on the record.           *)
Label(rev)           == IF rev = "draft13" THEN "EXPORTER-TTTPS-v2-draft13" ELSE "EXPORTER-TTTPS-v2-Binding"
Context(rev, r)      == IF rev = "draft13" THEN <<"draft13", 0, r>> ELSE <<"v2", r, r.ctx, r.nonce>>
Export(channel, rev, r) == <<channel, Label(rev), Context(rev, r)>>
BindingInput(rev, r, out) ==
  IF rev = "draft13" THEN <<"draft13", 0, out, r>> ELSE <<"v2", out, r.ctx, r.nonce>>

(* A proof is what a holder signed, with Ed25519 or its secret; secret is  *)
(* the one the verifier is given, NoPolicy in the tools of this server.    *)
VerifyBinding(rev, r, proof, out, secret) ==
  LET wrong == proof.over # BindingInput(rev, r, out)
  IN IF r.holderType = Ed25519
     THEN FirstFailure(<<
            <<proof.type # Ed25519, "binding proof must be 64 octets">>,
            <<proof.by # r.holder \/ wrong, "holder proof mismatch">> >>)
     ELSE FirstFailure(<<
            <<secret = NoPolicy, "shared-secret holder binding unavailable">>,
            <<proof.type # SharedSecret, "HMAC binding proof must be 32 octets">>,
            <<r.holder # secret, "shared-secret digest mismatch">>,
            <<proof.by # secret \/ wrong, "HMAC proof mismatch">> >>)

Draft13Freshness(ts, now, disp, past, future) ==
  /\ {ts, now, past, future} \subseteq 0 .. MaxU64 /\ disp \in 0 .. MaxU32
  /\ IF ts > now THEN ts - now <= future
     ELSE past <= MaxU64 - disp /\ now - ts <= past + disp

----------------------------------------------------------------------------
(* Version 08, 184 or 216 octets.  The commitment covers the fields before *)
(* it and the context id, the signature the fields and the commitment.     *)

PreV08 == {"version", "tier", "hasHolder", "alg", "srcCnt", "bound", "ts", "keyId",
           "nonce", "digest", "holder"}
LengthV08(r) == IF r.hasHolder THEN 216 ELSE 184

EncodableV08(f) == f.srcCnt \in 3 .. 255 /\ f.bound \in 0 .. Reserved - 1

EncodeV08(f, ctxId, key) ==
  LET pre    == [n \in PreV08 |-> IF n = "hasHolder" THEN f.holder # NoPolicy ELSE f[n]]
      commit == <<ctxId, pre>>
  IN [n \in PreV08 \cup {"len", "commitment", "sig"} |->
        CASE n = "len"        -> LengthV08(pre)
          [] n = "commitment" -> commit
          [] n = "sig"        -> Sign(key, <<pre, commit>>)
          [] OTHER            -> pre[n]]

VerifyV08(r, ctxId, key, content, fresh) ==
  FirstFailure(<<
    <<r.len # LengthV08(r), "size">>,
    <<r.version # 1, "unknown version">>,
    <<r.alg # 1, "unimplemented integrity algorithm">>,
    <<r.bound = Reserved, "reserved error bound">>,
    <<fresh # NoPolicy /\ ~WithinSkew(r.ts, r.bound, fresh), "freshness window exceeded">>,
    <<r.commitment # <<ctxId, Fields(r, PreV08)>>, "commitment mismatch">>,
    <<r.sig # Sign(key, <<Fields(r, PreV08), r.commitment>>), "Ed25519 signature invalid">>,
    <<content # NoPolicy /\ r.digest # content, "Payload Digest mismatch">> >>)
=============================================================================
