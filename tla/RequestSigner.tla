--------------------------- MODULE RequestSigner ---------------------------
(***************************************************************************)
(* RequestSigner (src/signer.cpp): the key that load() reads and keeps,    *)
(* and the RSA-PSS signature that sign() makes with it.  A signer belongs  *)
(* to one thread; the file it reads may change under it at any time.       *)
(*                                                                         *)
(* OpenSSL is external: each call of it may fail, an EVP_MD_CTX keeps the  *)
(* key and the parameters it was given until it is initialised again, and  *)
(* one that failed is left as it was or blank.  A signature is the record  *)
(* of what it was computed from; base64 is a tag around it.                *)
(***************************************************************************)
EXTENDS Integers, Sequences

CONSTANTS
    RsaKeys,    \* RSA private keys
    Requests,   \* what sign() is asked to sign: <<timestamp, method, path>>
    MaxLeaks    \* bound: the allocations of a Key that fail

ASSUME SignerAssumption ==
    /\ RsaKeys \cap {"none", "absent", "garbage", "encrypted", "ec"} = {}
    /\ MaxLeaks \in Nat

\* What may be at private_key_path: no file, a file that is no PEM key, an
\* encrypted key (refuse_passphrase makes it unreadable), a key that is not RSA.
Files == RsaKeys \cup {"absent", "garbage", "encrypted", "ec"}

VARIABLES
    file,         \* what is at private_key_path_
    key,          \* key_->pkey, or "none" for a null key_
    ctx,          \* key_->ctx
    fresh,        \* load()'s local `pkey`, or "none"
    message,      \* message_
    signature,    \* signature_
    at,           \* the step of load() or sign() the caller's thread is at
    result,       \* what the last call gave: ok, failure, threw, or a signature
    live,         \* OpenSSL's objects that were made and not freed
    leaked        \* history: the keys lost because make_unique<Key>() threw

signerVars == <<file, key, ctx, fresh, message, signature, at, result, live, leaked>>

Context(k, padding, salt, mgf1) ==
    [key |-> k, padding |-> padding, salt |-> salt, mgf1 |-> mgf1]
Blank == Context("none", "none", "none", "none")

\* EVP_DigestSignInit gives a key PKCS #1 padding and the widest salt.
Initialised(k) == Context(k, "pkcs1", "widest", "none")

Live(bio, pkey, md_ctx) == [bio |-> bio, pkey |-> pkey, md_ctx |-> md_ctx]

NoSignature == [by |-> Blank, message |-> << >>]

SignerInit ==
    /\ file \in Files
    /\ key = "none" /\ ctx = Blank /\ fresh = "none"
    /\ message = << >> /\ signature = NoSignature
    /\ at = "idle" /\ result = << >>
    /\ live = Live(0, 0, 0) /\ leaked = 0

\* key_ owns a key and a context, or nothing.
Owned == IF key = "none" THEN 0 ELSE 1

Proceed(next) == at' = next /\ result' = << >>
GiveBack(what) == at' = "idle" /\ result' = <<what>>

-----------------------------------------------------------------------------
(* load().                                                                 *)

LoadOpens ==
    /\ at = "idle"
    /\ \/ /\ file # "absent"
          /\ Proceed("read") /\ live' = Live(live.bio + 1, live.pkey, live.md_ctx)
       \/ GiveBack("failure") /\ UNCHANGED live
    /\ UNCHANGED <<file, key, ctx, fresh, message, signature, leaked>>

\* PEM_read_bio_PrivateKey, and the BIO_free that follows whatever it gave.
LoadReads ==
    /\ at = "read"
    /\ \/ /\ file \in RsaKeys \cup {"ec"}
          /\ fresh' = file /\ Proceed("type")
          /\ live' = Live(live.bio - 1, live.pkey + 1, live.md_ctx)
       \/ /\ GiveBack("failure")
          /\ live' = Live(live.bio - 1, live.pkey, live.md_ctx)
          /\ UNCHANGED fresh
    /\ UNCHANGED <<file, key, ctx, message, signature, leaked>>

\* Mutant: the key that is not RSA not freed.
LoadChecksTypeLeaks ==
    /\ at = "type"
    /\ IF fresh \in RsaKeys
       THEN Proceed("context") /\ UNCHANGED fresh
       ELSE fresh' = "none" /\ GiveBack("failure")
    /\ UNCHANGED <<file, key, ctx, message, signature, live, leaked>>

LoadChecksType ==
    /\ at = "type"
    /\ IF fresh \in RsaKeys
       THEN Proceed("context") /\ UNCHANGED <<fresh, live>>
       ELSE /\ fresh' = "none" /\ GiveBack("failure")
            /\ live' = Live(live.bio, live.pkey - 1, live.md_ctx)
    /\ UNCHANGED <<file, key, ctx, message, signature, leaked>>

\* ~Key: of the new key when it has no context, of the old one when it is replaced.
\* Until make_unique<Key>() has returned nobody owns `pkey`: when it throws, the key
\* is lost.
LoadKeeps ==
    /\ at = "context"
    /\ \/ /\ GiveBack("ok")
          /\ key' = fresh /\ ctx' = Blank
          /\ live' = Live(live.bio, live.pkey - Owned, live.md_ctx + 1 - Owned)
          /\ UNCHANGED leaked
       \/ /\ GiveBack("failure")
          /\ live' = Live(live.bio, live.pkey - 1, live.md_ctx)
          /\ UNCHANGED <<key, ctx, leaked>>
       \/ /\ leaked < MaxLeaks
          /\ GiveBack("threw") /\ leaked' = leaked + 1
          /\ UNCHANGED <<key, ctx, live>>
    /\ fresh' = "none"
    /\ UNCHANGED <<file, message, signature>>

-----------------------------------------------------------------------------
(* sign(), sign_websocket_auth() and sign_message().                       *)

SignAssembles(request) ==
    /\ at = "idle"
    /\ message' = request
    /\ IF key = "none" THEN GiveBack("threw") ELSE Proceed("init")
    /\ UNCHANGED <<file, key, ctx, fresh, signature, live, leaked>>

WebSocketRequest(timestamp) == <<timestamp, "GET", "/trade-api/ws/v2">>

Sign ==
    \/ \E request \in Requests : SignAssembles(request)
    \/ \E request \in Requests : SignAssembles(WebSocketRequest(request[1]))

SignInitialises ==
    /\ at = "init"
    /\ \/ Proceed("parameters") /\ ctx' = Initialised(key)
       \/ GiveBack("threw") /\ ctx' \in {ctx, Blank}
    /\ UNCHANGED <<file, key, fresh, message, signature, live, leaked>>

\* The three setters in turn, until one fails.
SignSetsParameters ==
    /\ at = "parameters"
    /\ \/ ctx' = Context(ctx.key, "pss", "digest", "sha256") /\ Proceed("sign")
       \/ /\ ctx' \in {ctx, Context(ctx.key, "pss", ctx.salt, ctx.mgf1),
                         Context(ctx.key, "pss", "digest", ctx.mgf1)}
          /\ GiveBack("threw")
    /\ UNCHANGED <<file, key, fresh, message, signature, live, leaked>>

Signature == [by |-> ctx, message |-> message]
Base64(bytes) == [base64 |-> bytes]

\* Mutant: the buffer given back whether or not it was written.
SignComputesUnchecked ==
    /\ at = "sign"
    /\ signature' \in {signature, Signature}
    /\ at' = "idle" /\ result' = <<"signature", Base64(signature')>>
    /\ UNCHANGED <<file, key, ctx, fresh, message, live, leaked>>

\* The sizing call, the signature into the buffer of the last one, and base64; each
\* throws when it fails, the last with the buffer already written.
SignComputes ==
    /\ at = "sign"
    /\ \/ /\ signature' = Signature
          /\ at' = "idle" /\ result' = <<"signature", Base64(Signature)>>
       \/ signature' \in {signature, Signature} /\ GiveBack("threw")
    /\ UNCHANGED <<file, key, ctx, fresh, message, live, leaked>>

\* ~RequestSigner.
DestroySigner ==
    /\ key' = "none" /\ ctx' = Blank
    /\ fresh' = "none" /\ message' = << >> /\ signature' = NoSignature
    /\ at' = "idle" /\ result' = << >>
    /\ live' = Live(live.bio, live.pkey - Owned, live.md_ctx - Owned)
    /\ UNCHANGED leaked

LoadStep == LoadReads \/ LoadChecksType \/ LoadKeeps
SignStep == SignInitialises \/ SignSetsParameters \/ SignComputes

\* Another process replaces or removes the file.
FileChanges ==
    /\ file' \in Files
    /\ UNCHANGED <<key, ctx, fresh, message, signature, at, result, live, leaked>>

SignerNext == LoadOpens \/ LoadStep \/ Sign \/ SignStep \/ FileChanges

SignerSpec == SignerInit /\ [][SignerNext]_signerVars

-----------------------------------------------------------------------------
(* Properties.                                                             *)

\* "RSA-PSS over timestamp + method + path, MGF1 and the digest both SHA-256, salt
\* length equal to the digest length": a signature that sign() returns is of the
\* request of this call, by the key of the last load() that succeeded, with all of
\* these parameters, whatever calls failed half-way before it in the same context.
SignaturesAreOfThisRequest ==
    result # << >> /\ result[1] = "signature" =>
        result[2] = Base64([message |-> message,
                            by |-> Context(key, "pss", "digest", "sha256")])

\* Between calls OpenSSL holds exactly what key_ owns and the keys that were lost
\* because make_unique<Key>() threw while load() held the key by a raw pointer
\* (signer.cpp:98): no other way out of load() or sign() leaks, none frees twice,
\* and no failed load() takes the earlier key with it.
OwnsWhatItHolds ==
    at = "idle" => live = Live(0, Owned + leaked, Owned)

=============================================================================
