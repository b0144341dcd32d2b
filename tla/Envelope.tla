------------------------------- MODULE Envelope -------------------------------
(***************************************************************************)
(* The sealed and signed request of the HTTP transport: the HPKE envelope  *)
(* (internal/auth/sealed.go) and the message signature around it           *)
(* (internal/auth/httpsig.go), as operators on terms.  What a primitive    *)
(* guarantees is its shape: a ciphertext opens in the context and with the *)
(* associated data it was sealed with, a signature verifies for the base   *)
(* and the key it was made with, different bodies have different digests.  *)
(*                                                                         *)
(* A stamp is the pair of X-Muthur-Timestamp and X-Muthur-Nonce: the code  *)
(* never uses one without the other.  A certificate is named after its     *)
(* owner, and so are its key and its key id.  Encodings, the version byte  *)
(* and the lengths it guards are left out.                                 *)
(***************************************************************************)

\* The covered components, with @method, which is POST throughout, left out.
signedComponents == {"path", "digest", "stamp", "cert", "kid"}

\* An HPKE context of a sender or a recipient: the encapsulated secret, the
\* key it is encapsulated to and the endpoint it is bound to (hpkeInfo).
Context(enc, kid, path) == [enc |-> enc, kid |-> kid, info |-> path]

\* Mutant: the ciphertext is not bound to the freshness headers.
sealAADEmpty(stamp) == <<>>

sealAAD(stamp) == <<"aad", stamp>>

\* Mutant: one response key for every request.
ExportShared(ctx) == <<"muthur/v1 response", "shared">>

\* The response key that both ends derive from the context of the request.
Export(ctx) == <<"muthur/v1 response", ctx>>

\* The body of a request.  enc is fresh in every call.
SealRequest(kid, path, stamp, plaintext, enc) ==
    LET ctx == Context(enc, kid, path)
    IN  [body   |-> [enc |-> enc,
                     ct  |-> [ctx |-> ctx, aad |-> sealAAD(stamp), pt |-> plaintext]],
         opener |-> Export(ctx)]

\* Whether the brain, which holds some keys, can open a body as a request with
\* these headers; "ok" comes with the plaintext body.ct.pt and the sealer.
OpenRequest(held, kid, path, stamp, body) ==
    LET ctx == Context(body.enc, kid, path)
    IN  IF kid \notin held THEN "hpke_key_unknown"
        ELSE IF body.ct.ctx # ctx \/ body.ct.aad # sealAAD(stamp) THEN "sealed_malformed"
        ELSE "ok"

ResponseSealer(kid, path, body) == Export(Context(body.enc, kid, path))

\* A sealed response and its opening.
SealResponse(sealer) == [key |-> sealer]

OpenResponse(opener, response) == response.key = opener

-----------------------------------------------------------------------------

ContentDigest(body) == <<"sha-256", body>>

VerifyContentDigest(h, body) == h.digest = ContentDigest(body)

signatureParams(created, keyid) ==
    [components |-> signedComponents, created |-> created, keyid |-> keyid]

\* The covered components of a request with headers h, and the parameters.
SignatureBase(h, params) == <<[c \in signedComponents |-> h[c]], params>>

SignRequest(h, cert) ==
    LET params == signatureParams(h.stamp, cert)
    IN  [h EXCEPT !.signature = [input |-> params,
                                 by    |-> cert,
                                 over  |-> SignatureBase(h, params)]]

\* parseSignatureParams accepts no other list of components.
VerifyRequest(h, unsigned) ==
    /\ h.signature # unsigned
    /\ h.signature.input.components = signedComponents
    /\ h.signature.by = h.cert
    /\ h.signature.over = SignatureBase(h, h.signature.input)

===============================================================================
