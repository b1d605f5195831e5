------------------------------ MODULE WsioCerts ------------------------------
(***************************************************************************)
(* The LWS_CALLBACK_OPENSSL_LOAD_EXTRA_CLIENT_VERIFY_CERTS case of         *)
(* on_ws_callback (src/src/wsio.c): when libwebsockets builds the client   *)
(* SSL context of a new lws context (once per wsio_open), the handler      *)
(* writes the instance's trusted_ca into a memory BIO and adds every PEM   *)
(* certificate it can read from it to the context's X509 store.           *)
(*                                                                         *)
(* Certificates are model values; a PEM blob is a sequence of blocks, each *)
(* a certificate or a block PEM_read_bio_X509 cannot parse.                *)
(***************************************************************************)
EXTENDS Naturals, Sequences, SequencesExt

CONSTANTS
    Certs,              \* certificates a trust-anchor blob or the store may hold
    Blocks,             \* what a PEM block may be: Certs, possibly with Malformed
    Malformed,          \* a PEM block that does not parse as a certificate
    Null,               \* the NULL pointer (a NULL trusted_ca, a NULL X509)
    MaxChain,           \* PEM blocks in trusted_ca
    MaxOpens,           \* wsio_open calls, each building a new SSL context
    DuplicateAddFails   \* X509_STORE_add_cert rejects a certificate already in
                        \* the store (OpenSSL before 1.1.1)

ASSUME /\ Certs \subseteq Blocks /\ Blocks \subseteq Certs \cup {Malformed}
       /\ MaxChain \in Nat /\ MaxOpens \in Nat \ {0}
       /\ DuplicateAddFails \in BOOLEAN

\* wsio_create copies config->trusted_ca, which is optional.
TrustedCas == {Null} \cup BoundedSeq(Blocks, MaxChain)

\* How the handler ended: not run yet, BIO_new failed, BIO_puts wrote short,
\* the read loop ran to a NULL certificate, the loop broke on a failed add,
\* or strlen/BIO_puts read through a NULL trusted_ca.
Outcomes == {"none", "bio_failed", "puts_failed", "read_all", "add_failed", "crashed"}

VARIABLES
    trusted_ca,   \* wsio_instance->trusted_ca
    store,        \* the X509 store of the current SSL context
    anchors,      \* what the store held before the handler ran
    leaked,       \* X509 objects read and never freed, over all contexts
    outcome,      \* how the last run of the handler ended
    opens         \* SSL contexts built so far

cvars == <<trusted_ca, store, anchors, leaked, outcome, opens>>

CInit ==
    /\ trusted_ca \in TrustedCas
    /\ store = {}
    /\ anchors = {}
    /\ leaked = 0
    /\ outcome = "none"
    /\ opens = 0

\* X509_STORE_add_cert fails for a certificate the store already holds when
\* the OpenSSL in use rejects duplicates.
AddFails(c, s) == DuplicateAddFails /\ c \in s

\* Fault variant of PemLoop: the NULL check on the certificate read is
\* dropped, so the NULL ending the loop is added to the store too.
RECURSIVE PemLoopNoNullCheck(_, _, _)
PemLoopNoNullCheck(bio, s, n) ==
    IF bio = <<>> \/ Head(bio) = Malformed
    THEN [store |-> s \cup {Null}, leaked |-> n, outcome |-> "read_all"]
    ELSE IF AddFails(Head(bio), s)
         THEN [store |-> s, leaked |-> n + 1, outcome |-> "add_failed"]
         ELSE PemLoopNoNullCheck(Tail(bio), s \cup {Head(bio)}, n + 1)

\* Fault variant of PemLoop: the loop stops after the first certificate.
PemLoopOnce(bio, s, n) ==
    IF bio = <<>> \/ Head(bio) = Malformed
    THEN [store |-> s, leaked |-> n, outcome |-> "read_all"]
    ELSE IF AddFails(Head(bio), s)
         THEN [store |-> s, leaked |-> n + 1, outcome |-> "add_failed"]
         ELSE [store |-> s \cup {Head(bio)}, leaked |-> n + 1, outcome |-> "read_all"]

\* The do-while loop: PEM_read_bio_X509 reads the next block of the BIO; a
\* NULL certificate (end of data, or a block that does not parse) ends the
\* loop, a failed X509_STORE_add_cert breaks out of it.  No certificate
\* read is ever X509_free'd: the store takes its own reference.
RECURSIVE PemLoop(_, _, _)
PemLoop(bio, s, n) ==
    IF bio = <<>> \/ Head(bio) = Malformed
    THEN [store |-> s, leaked |-> n, outcome |-> "read_all"]
    ELSE IF AddFails(Head(bio), s)
         THEN [store |-> s, leaked |-> n + 1, outcome |-> "add_failed"]
         ELSE PemLoop(Tail(bio), s \cup {Head(bio)}, n + 1)

\* lws_create_context in wsio_open builds the client SSL context, whose store
\* starts with whatever anchors the engine loaded, and runs the handler:
\* BIO_new, BIO_puts of trusted_ca (strlen first), the loop, BIO_free.
LoadExtraClientVerifyCerts ==
    /\ opens < MaxOpens
    /\ opens' = opens + 1
    /\ \E initial \in SUBSET Certs, bioOk \in BOOLEAN, putsOk \in BOOLEAN :
        /\ anchors' = initial
        /\ IF ~bioOk
           THEN /\ outcome' = "bio_failed"
                /\ UNCHANGED leaked
                /\ store' = initial
           ELSE IF trusted_ca = Null
           THEN /\ outcome' = "crashed"
                /\ UNCHANGED leaked
                /\ store' = initial
           ELSE IF ~putsOk
           THEN /\ outcome' = "puts_failed"
                /\ UNCHANGED leaked
                /\ store' = initial
           ELSE LET r == PemLoop(trusted_ca, initial, leaked) IN
                /\ store' = r.store
                /\ leaked' = r.leaked
                /\ outcome' = r.outcome
    /\ UNCHANGED trusted_ca

\* wsio_open is called no more than MaxOpens times.
Done ==
    /\ opens = MaxOpens
    /\ UNCHANGED cvars

CNext == LoadExtraClientVerifyCerts \/ Done

CSpec == CInit /\ [][CNext]_cvars

-----------------------------------------------------------------------------
(* Properties                                                              *)

CTypeOK ==
    /\ trusted_ca \in TrustedCas
    /\ store \subseteq Certs /\ anchors \subseteq Certs
    /\ leaked \in Nat
    /\ outcome \in Outcomes
    /\ opens \in 0..MaxOpens

\* Reference: the certificates a PEM blob contains, in any order.
CertsOf(ca) == {ca[i] : i \in {j \in DOMAIN ca : ca[j] \in Certs}}

\* Once the blob has been read, the store trusts exactly the engine's own
\* anchors and every certificate of trusted_ca (spec 4.2: "add every
\* certificate it contains"), whatever order and repetitions it has.
AnchorsTrusted ==
    outcome \in {"read_all", "add_failed"} =>
        store = anchors \cup CertsOf(trusted_ca)

\* trusted_ca is optional (spec 6: "trusted_ca: optional PEM-encoded
\* certificate chain"; wsio_create leaves it NULL when the configuration has
\* none), so the handler libwebsockets runs for every new SSL context must
\* never hand a NULL trusted_ca to strlen or BIO_puts.
NullCaNeverRead == outcome # "crashed"

=============================================================================
