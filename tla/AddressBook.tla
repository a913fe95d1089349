----------------------------- MODULE AddressBook -----------------------------
(***************************************************************************)
(* The address book of app_features/address_book: a host registers and     *)
(* edits contacts, the user reviews them, and the device answers with      *)
(* proofs that the host keeps and shows again when it provides a contact.  *)
(*                                                                         *)
(* Strings are sequences of small numbers, an HMAC is its key and its      *)
(* message (what collides is what serialize_hmac_msg makes equal), and the *)
(* host may send every proof that it was ever given, in any combination:   *)
(* a proof verifies if the host has it and does not send a wrong one.      *)
(* A chunk is counted, and the payload is looked at when it is complete.   *)
(* g_ab_payload is kept while a review may read it: every command clears   *)
(* it first.                                                               *)
(***************************************************************************)
EXTENDS Integers, Sequences

CONSTANTS
    Names, Scopes, Identifiers,  \* what a payload may hold
    Networks,                    \* pairs of a family and a chain
    Paths,                       \* derivation paths of Ledger accounts
    MaxChunked,                  \* size of s_chunk_buf
    MaxGroups,                   \* bound: groups made
    MaxReviews,                  \* bound: reviews confirmed
    HostWaits                    \* the host sends nothing while an answer is due

VARIABLES
    abChunks,       \* s_chunk_total and s_chunk_received
    g_ab_payload, \* the command under review
    review,       \* the callback that the review on the screen calls, or none
    shown,        \* what was filled in when that review was displayed
    abAnswer,       \* the last status word, or none while the host waits
    proofs,       \* the HMACs that the host was given
    groups,       \* group identifiers made
    attested,     \* what the user has confirmed
    stored,       \* the contact that the last command gave to the application
    reviews       \* reviews confirmed

abVars == <<abChunks, g_ab_payload, review, shown, abAnswer, proofs, groups, attested, stored, reviews>>

FAMILY_ETHEREUM == 1
NoReview == "none"
NoAnswer == "none"

ClearedPayload == [gid |-> 0, active |-> FALSE, name |-> <<>>, prev |-> <<>>, scope |-> <<>>,
            id |-> <<>>, network |-> <<0, 0>>, path |-> 0]

-----------------------------------------------------------------------------
(***************************************************************************)
(* The messages.  A string is preceded by its length, and the chain is in  *)
(* the message for the Ethereum family only.                               *)
(***************************************************************************)
LengthPrefixed(s) == <<Len(s)>> \o s

NetworkBytes(network) ==
    IF network[1] = FAMILY_ETHEREUM THEN network ELSE <<network[1]>>


serialize_hmac_msg(gid, str1, raw, network) ==
    gid \o (IF str1 = <<>> THEN <<>> ELSE LengthPrefixed(str1[1]))
        \o (IF raw = <<>> THEN <<>> ELSE LengthPrefixed(raw[1]))
        \o (IF network = <<>> THEN <<>> ELSE NetworkBytes(network[1]))

sys_address_book_hmac(salt, path, msg) == [salt |-> salt, path |-> path, msg |-> msg]

s_identity_path == 0

GroupMac(gid) == sys_address_book_hmac("GROUP", s_identity_path, <<gid>>)

HmacProof(gid, name) ==
    sys_address_book_hmac("IDENTITY", s_identity_path,
                          serialize_hmac_msg(<<gid>>, <<name>>, <<>>, <<>>))

HmacRest(gid, scope, id, network) ==
    sys_address_book_hmac("IDENTITY", s_identity_path,
                          serialize_hmac_msg(<<gid>>, <<scope>>, <<id>>, <<network>>))

HmacAccount(path, name, network) ==
    sys_address_book_hmac("LEDGER_ACCOUNT", path,
                          serialize_hmac_msg(<<>>, <<name>>, <<>>, <<network>>))

(***************************************************************************)
(* sys_address_book_hmac_verify: p.wrong names the proofs that are not the *)
(* right ones in payload p.                                                *)
(***************************************************************************)
MacVerified(mac, tag, p) == mac \in proofs /\ tag \notin p.wrong

address_book_verify_group_handle(p) == MacVerified(GroupMac(p.gid), "GROUP_HANDLE", p)

address_book_verify_hmac_proof(p, name) == MacVerified(HmacProof(p.gid, name), "HMAC_PROOF", p)

address_book_verify_hmac_rest(p, scope, id) ==
    MacVerified(HmacRest(p.gid, scope, id, p.network), "HMAC_REST", p)

address_book_verify_hmac_proof_ledger_account(p, name) ==
    MacVerified(HmacAccount(p.path, name, p.network), "HMAC_PROOF", p)

-----------------------------------------------------------------------------
(***************************************************************************)
(* The commands.  Each has its table of tags, of which verify_fields asks  *)
(* for most.                                                               *)
(***************************************************************************)
Header == {"STRUCTURE_TYPE", "STRUCTURE_VERSION"}

REGISTER_IDENTITY_TAGS ==
    Header \cup {"CONTACT_NAME", "SCOPE", "ACCOUNT_IDENTIFIER", "DERIVATION_PATH", "CHAIN_ID",
                 "BLOCKCHAIN_FAMILY", "GROUP_HANDLE", "HMAC_PROOF"}

EDIT_CONTACT_NAME_TAGS ==
    Header \cup {"CONTACT_NAME", "PREVIOUS_NAME", "GROUP_HANDLE", "DERIVATION_PATH", "HMAC_PROOF"}

EDIT_IDENTIFIER_TAGS ==
    Header \cup {"CONTACT_NAME", "SCOPE", "ACCOUNT_IDENTIFIER", "PREVIOUS_IDENTIFIER", "GROUP_HANDLE",
                 "DERIVATION_PATH", "CHAIN_ID", "HMAC_PROOF", "HMAC_REST", "BLOCKCHAIN_FAMILY"}

EDIT_SCOPE_TAGS ==
    Header \cup {"CONTACT_NAME", "SCOPE", "ACCOUNT_IDENTIFIER", "PREVIOUS_SCOPE", "GROUP_HANDLE",
                 "DERIVATION_PATH", "CHAIN_ID", "HMAC_PROOF", "HMAC_REST", "BLOCKCHAIN_FAMILY"}

PROVIDE_CONTACT_TAGS ==
    Header \cup {"CONTACT_NAME", "SCOPE", "ACCOUNT_IDENTIFIER", "GROUP_HANDLE", "DERIVATION_PATH",
                 "CHAIN_ID", "BLOCKCHAIN_FAMILY", "HMAC_PROOF", "HMAC_REST"}

LEDGER_ACCOUNT_TAGS ==
    Header \cup {"CONTACT_NAME", "DERIVATION_PATH", "CHAIN_ID", "BLOCKCHAIN_FAMILY"}

EDIT_LEDGER_ACCOUNT_TAGS ==
    Header \cup {"CONTACT_NAME", "PREVIOUS_NAME", "DERIVATION_PATH", "CHAIN_ID", "HMAC_PROOF",
                 "BLOCKCHAIN_FAMILY"}

PROVIDE_LEDGER_ACCOUNT_TAGS ==
    Header \cup {"CONTACT_NAME", "DERIVATION_PATH", "CHAIN_ID", "BLOCKCHAIN_FAMILY", "HMAC_PROOF"}

(***************************************************************************)
(* The parser refuses a tag that is not in the table and a type that is    *)
(* not the command's.                                                      *)
(***************************************************************************)
Parsed(p, type, tags) == p.type = type /\ p.tags \subseteq tags

ChainGiven(p) == p.network[1] = FAMILY_ETHEREUM => "CHAIN_ID" \in p.tags

register_verify_fields(p) ==
    /\ REGISTER_IDENTITY_TAGS \ {"DERIVATION_PATH", "CHAIN_ID", "GROUP_HANDLE", "HMAC_PROOF"}
          \subseteq p.tags
    /\ ChainGiven(p)
    /\ "GROUP_HANDLE" \in p.tags <=> "HMAC_PROOF" \in p.tags

edit_contact_name_verify_fields(p) == EDIT_CONTACT_NAME_TAGS \ {"DERIVATION_PATH"} \subseteq p.tags

edit_identifier_verify_fields(p) ==
    /\ EDIT_IDENTIFIER_TAGS \ {"SCOPE", "DERIVATION_PATH", "CHAIN_ID"} \subseteq p.tags
    /\ ChainGiven(p)

edit_scope_verify_fields(p) ==
    /\ EDIT_SCOPE_TAGS \ {"DERIVATION_PATH", "CHAIN_ID"} \subseteq p.tags
    /\ ChainGiven(p)

provide_contact_verify_fields(p) ==
    /\ PROVIDE_CONTACT_TAGS \ {"DERIVATION_PATH", "CHAIN_ID"} \subseteq p.tags
    /\ ChainGiven(p)

ledger_account_verify_fields(p) ==
    /\ LEDGER_ACCOUNT_TAGS \ {"CHAIN_ID"} \subseteq p.tags
    /\ ChainGiven(p)

edit_ledger_account_verify_fields(p) ==
    /\ EDIT_LEDGER_ACCOUNT_TAGS \ {"CHAIN_ID"} \subseteq p.tags
    /\ ChainGiven(p)

provide_ledger_account_verify_fields(p) ==
    /\ PROVIDE_LEDGER_ACCOUNT_TAGS \ {"CHAIN_ID"} \subseteq p.tags
    /\ ChainGiven(p)

-----------------------------------------------------------------------------
(***************************************************************************)
(* What a command leads to: a refusal, a contact for the application, or a *)
(* review, before which g_ab_payload has been filled.                      *)
(***************************************************************************)
Rejected(sw) == [sw |-> sw, review |-> NoReview, payload |-> ClearedPayload, contact |-> {}]

Accepted(contact) ==
    [sw |-> "SWO_SUCCESS", review |-> NoReview, payload |-> ClearedPayload, contact |-> {contact}]

UnderReview(flow, payload) ==
    [sw |-> NoAnswer, review |-> flow, payload |-> payload, contact |-> {}]

ParsedPayload(p) == [gid |-> p.gid, active |-> FALSE, name |-> p.name, prev |-> p.prev,
              scope |-> p.scope, id |-> p.id, network |-> p.network, path |-> p.path]

register_identity(p, accepted) ==
    LET linked == "GROUP_HANDLE" \in p.tags
    IN  CASE ~Parsed(p, "REGISTER_IDENTITY", REGISTER_IDENTITY_TAGS) -> Rejected("SWO_INCORRECT_DATA")
          [] ~register_verify_fields(p) -> Rejected("SWO_INCORRECT_DATA")
          [] linked /\ ~address_book_verify_group_handle(p) -> Rejected("SWO_SECURITY_CONDITION_NOT_SATISFIED")
          [] linked /\ ~address_book_verify_hmac_proof(p, p.name) -> Rejected("SWO_SECURITY_CONDITION_NOT_SATISFIED")
          [] ~accepted -> Rejected("SWO_WRONG_PARAMETER_VALUE")
          [] OTHER -> UnderReview("register", [ParsedPayload(p) EXCEPT !.active = linked])

edit_contact_name(p, accepted) ==
    CASE ~Parsed(p, "EDIT_CONTACT_NAME", EDIT_CONTACT_NAME_TAGS) -> Rejected("SWO_INCORRECT_DATA")
      [] ~edit_contact_name_verify_fields(p) -> Rejected("SWO_INCORRECT_DATA")
      [] ~address_book_verify_group_handle(p) -> Rejected("SWO_SECURITY_CONDITION_NOT_SATISFIED")
      [] ~address_book_verify_hmac_proof(p, p.prev) -> Rejected("SWO_SECURITY_CONDITION_NOT_SATISFIED")
      [] OTHER -> UnderReview("edit_contact_name", ParsedPayload(p))

edit_identifier(p, accepted) ==
    CASE ~Parsed(p, "EDIT_IDENTIFIER", EDIT_IDENTIFIER_TAGS) -> Rejected("SWO_INCORRECT_DATA")
      [] ~edit_identifier_verify_fields(p) -> Rejected("SWO_INCORRECT_DATA")
      [] ~address_book_verify_group_handle(p) -> Rejected("SWO_SECURITY_CONDITION_NOT_SATISFIED")
      [] ~address_book_verify_hmac_proof(p, p.name) -> Rejected("SWO_SECURITY_CONDITION_NOT_SATISFIED")
      [] ~address_book_verify_hmac_rest(p, p.scope, p.prev) -> Rejected("SWO_SECURITY_CONDITION_NOT_SATISFIED")
      [] ~accepted -> Rejected("SWO_WRONG_PARAMETER_VALUE")
      [] OTHER -> UnderReview("edit_identifier", ParsedPayload(p))

edit_scope(p, accepted) ==
    CASE ~Parsed(p, "EDIT_SCOPE", EDIT_SCOPE_TAGS) -> Rejected("SWO_INCORRECT_DATA")
      [] ~edit_scope_verify_fields(p) -> Rejected("SWO_INCORRECT_DATA")
      [] ~address_book_verify_group_handle(p) -> Rejected("SWO_SECURITY_CONDITION_NOT_SATISFIED")
      [] ~address_book_verify_hmac_proof(p, p.name) -> Rejected("SWO_SECURITY_CONDITION_NOT_SATISFIED")
      [] ~address_book_verify_hmac_rest(p, p.prev, p.id) -> Rejected("SWO_SECURITY_CONDITION_NOT_SATISFIED")
      [] OTHER -> UnderReview("edit_scope", ParsedPayload(p))

provide_contact(p, accepted) ==
    CASE ~Parsed(p, "PROVIDE_CONTACT", PROVIDE_CONTACT_TAGS) -> Rejected("SWO_INCORRECT_DATA")
      [] ~provide_contact_verify_fields(p) -> Rejected("SWO_INCORRECT_DATA")
      [] ~address_book_verify_group_handle(p) -> Rejected("SWO_SECURITY_CONDITION_NOT_SATISFIED")
      [] ~address_book_verify_hmac_proof(p, p.name) -> Rejected("SWO_SECURITY_CONDITION_NOT_SATISFIED")
      [] ~address_book_verify_hmac_rest(p, p.scope, p.id) -> Rejected("SWO_SECURITY_CONDITION_NOT_SATISFIED")
      [] ~accepted -> Rejected("SWO_WRONG_PARAMETER_VALUE")
      [] OTHER -> Accepted(ParsedPayload(p))

register_ledger_account(p, accepted) ==
    CASE ~Parsed(p, "REGISTER_LEDGER_ACCOUNT", LEDGER_ACCOUNT_TAGS) -> Rejected("SWO_INCORRECT_DATA")
      [] ~ledger_account_verify_fields(p) -> Rejected("SWO_INCORRECT_DATA")
      [] ~accepted -> Rejected("SWO_WRONG_PARAMETER_VALUE")
      [] OTHER -> UnderReview("register_ledger_account", ParsedPayload(p))

edit_ledger_account(p, accepted) ==
    CASE ~Parsed(p, "EDIT_LEDGER_ACCOUNT", EDIT_LEDGER_ACCOUNT_TAGS) -> Rejected("SWO_INCORRECT_DATA")
      [] ~edit_ledger_account_verify_fields(p) -> Rejected("SWO_INCORRECT_DATA")
      [] ~address_book_verify_hmac_proof_ledger_account(p, p.prev) ->
            Rejected("SWO_SECURITY_CONDITION_NOT_SATISFIED")
      [] ~accepted -> Rejected("SWO_INCORRECT_DATA")
      [] OTHER -> UnderReview("edit_ledger_account", ParsedPayload(p))

provide_ledger_account_contact(p, accepted) ==
    CASE ~Parsed(p, "PROVIDE_LEDGER_ACCOUNT", PROVIDE_LEDGER_ACCOUNT_TAGS) -> Rejected("SWO_INCORRECT_DATA")
      [] ~provide_ledger_account_verify_fields(p) -> Rejected("SWO_INCORRECT_DATA")
      [] ~address_book_verify_hmac_proof_ledger_account(p, p.name) ->
            Rejected("SWO_SECURITY_CONDITION_NOT_SATISFIED")
      [] ~accepted -> Rejected("SWO_WRONG_PARAMETER_VALUE")
      [] OTHER -> Accepted(ParsedPayload(p))

(***************************************************************************)
(* The answer to a confirmed review: the HMACs that are sent.              *)
(***************************************************************************)
register_build_and_send_response(d) ==
    LET gid == IF d.active THEN d.gid ELSE groups + 1
    IN  {GroupMac(gid), HmacProof(gid, d.name), HmacRest(gid, d.scope, d.id, d.network)}

edit_contact_name_build_and_send_response(d) == {HmacProof(d.gid, d.name)}

edit_identifier_build_and_send_response(d) == {HmacRest(d.gid, d.scope, d.id, d.network)}

edit_scope_build_and_send_response(d) == {HmacRest(d.gid, d.scope, d.id, d.network)}

ledger_account_build_and_send_response(d) == {HmacAccount(d.path, d.name, d.network)}

edit_ledger_account_build_and_send_response(d) == {HmacAccount(d.path, d.name, d.network)}

Response(flow, d) ==
    CASE flow = "register" -> register_build_and_send_response(d)
      [] flow = "edit_contact_name" -> edit_contact_name_build_and_send_response(d)
      [] flow = "edit_identifier" -> edit_identifier_build_and_send_response(d)
      [] flow = "edit_scope" -> edit_scope_build_and_send_response(d)
      [] flow = "register_ledger_account" -> ledger_account_build_and_send_response(d)
      [] flow = "edit_ledger_account" -> edit_ledger_account_build_and_send_response(d)

-----------------------------------------------------------------------------
(***************************************************************************)
(* reassemble_chunks: what becomes of the counters, and whether the        *)
(* payload is now complete.  A chunk that is not the first one keeps the   *)
(* total; one that is too short for a header changes nothing.  The count   *)
(* of what was received is read only while the total is not 0, and is 0    *)
(* here otherwise.                                                         *)
(***************************************************************************)
Appended(total, received, len) ==
    IF received > total \/ len > total - received
    THEN [status |-> "ERROR", total |-> 0, received |-> 0]
    ELSE IF received + len < total
    THEN [status |-> "PENDING", total |-> total, received |-> received + len]
    ELSE [status |-> "COMPLETE", total |-> 0, received |-> 0]

reassemble_chunks(first, header, total, len) ==
    CASE first /\ ~header -> [status |-> "ERROR", total |-> abChunks.total, received |-> abChunks.received]
      [] first /\ header /\ (total = 0 \/ total > MaxChunked) ->
            [status |-> "ERROR", total |-> 0, received |-> 0]
      [] first /\ header /\ total \in 1..MaxChunked -> Appended(total, 0, len)
      [] ~first /\ abChunks.total = 0 -> [status |-> "ERROR", total |-> 0, received |-> 0]
      [] ~first /\ abChunks.total # 0 -> Appended(abChunks.total, abChunks.received, len)

(***************************************************************************)
(* The payloads a host sends: what its command asks for, and the ways it   *)
(* gets it wrong, which are tried on one payload of each command.          *)
(***************************************************************************)
Payload(type, tags) ==
    [type |-> type, tags |-> tags, wrong |-> {}, gid |-> 0, name |-> <<>>, prev |-> <<>>,
     scope |-> <<>>, id |-> <<>>, network |-> <<0, 0>>, path |-> 0]

Groups == 1..groups

Linked == {Payload("REGISTER_IDENTITY", REGISTER_IDENTITY_TAGS)}

Fresh == {Payload("REGISTER_IDENTITY", REGISTER_IDENTITY_TAGS \ {"GROUP_HANDLE", "HMAC_PROOF"})}

Registrations ==
    {[p EXCEPT !.name = n, !.scope = s, !.id = i, !.network = w] :
        p \in Fresh, n \in Names, s \in Scopes, i \in Identifiers, w \in Networks}
    \cup {[p EXCEPT !.gid = g, !.name = n, !.scope = s, !.id = i, !.network = w] :
        p \in Linked, g \in Groups, n \in Names, s \in Scopes, i \in Identifiers, w \in Networks}

NameEdits ==
    {[Payload("EDIT_CONTACT_NAME", EDIT_CONTACT_NAME_TAGS) EXCEPT !.gid = g, !.name = n, !.prev = m] :
        g \in Groups, n \in Names, m \in Names}

IdentifierEdits ==
    {[Payload("EDIT_IDENTIFIER", EDIT_IDENTIFIER_TAGS)
        EXCEPT !.gid = g, !.name = n, !.scope = s, !.id = i, !.prev = j, !.network = w] :
        g \in Groups, n \in Names, s \in Scopes, i \in Identifiers, j \in Identifiers, w \in Networks}

ScopeEdits ==
    {[Payload("EDIT_SCOPE", EDIT_SCOPE_TAGS)
        EXCEPT !.gid = g, !.name = n, !.scope = s, !.id = i, !.prev = t, !.network = w] :
        g \in Groups, n \in Names, s \in Scopes, t \in Scopes, i \in Identifiers, w \in Networks}

Contacts ==
    {[Payload("PROVIDE_CONTACT", PROVIDE_CONTACT_TAGS)
        EXCEPT !.gid = g, !.name = n, !.scope = s, !.id = i, !.network = w] :
        g \in Groups, n \in Names, s \in Scopes, i \in Identifiers, w \in Networks}

Accounts(type, tags) ==
    {[Payload(type, tags) EXCEPT !.name = n, !.prev = m, !.network = w, !.path = q] :
        n \in Names, m \in IF "PREVIOUS_NAME" \in tags THEN Names ELSE {<<>>}, w \in Networks, q \in Paths}

Faulty(p) ==
    {[p EXCEPT !.tags = @ \ {t}] : t \in p.tags} \cup {[p EXCEPT !.tags = @ \cup {"UNKNOWN"}]}
    \cup {[p EXCEPT !.wrong = {t}] : t \in {"GROUP_HANDLE", "HMAC_PROOF", "HMAC_REST"}}
    \cup {[p EXCEPT !.type = "OTHER"]}

WithFaults(payloads) ==
    payloads \cup (IF payloads = {} THEN {} ELSE Faulty(CHOOSE p \in payloads : TRUE))

HostSent(p1) ==
    WithFaults(CASE p1 = 1 -> Registrations
                 [] p1 = 2 -> NameEdits
                 [] p1 = 3 -> IdentifierEdits
                 [] p1 = 4 -> ScopeEdits
                 [] p1 = 17 -> Accounts("REGISTER_LEDGER_ACCOUNT", LEDGER_ACCOUNT_TAGS)
                 [] p1 = 18 -> Accounts("EDIT_LEDGER_ACCOUNT", EDIT_LEDGER_ACCOUNT_TAGS)
                 [] p1 = 32 -> Contacts
                 [] p1 = 33 -> Accounts("PROVIDE_LEDGER_ACCOUNT", PROVIDE_LEDGER_ACCOUNT_TAGS)
                 [] OTHER -> {Payload("OTHER", {})})

Handled(p1, p, accepted) ==
    CASE p1 = 1 -> register_identity(p, accepted)
      [] p1 = 2 -> edit_contact_name(p, accepted)
      [] p1 = 3 -> edit_identifier(p, accepted)
      [] p1 = 4 -> edit_scope(p, accepted)
      [] p1 = 17 -> register_ledger_account(p, accepted)
      [] p1 = 18 -> edit_ledger_account(p, accepted)
      [] p1 = 32 -> provide_contact(p, accepted)
      [] p1 = 33 -> provide_ledger_account_contact(p, accepted)
      [] OTHER -> [Rejected("SWO_CONDITIONS_NOT_SATISFIED") EXCEPT !.payload = g_ab_payload]

Commands == {1, 2, 3, 4, 17, 18, 32, 33, 99}


-----------------------------------------------------------------------------
AbInit ==
    /\ abChunks = [total |-> 0, received |-> 0]
    /\ g_ab_payload = ClearedPayload /\ shown = ClearedPayload
    /\ review = NoReview /\ abAnswer = "SWO_SUCCESS"
    /\ proofs = {} /\ attested = {} /\ stored = {}
    /\ groups = 0 /\ reviews = 0

(***************************************************************************)
(* addr_book_handle_apdu, on a chunk that does not complete a payload and  *)
(* on one that does.  A new review takes the place of the one displayed.   *)
(***************************************************************************)
MaySend == HostWaits => abAnswer # NoAnswer

PayloadChunks ==
    {reassemble_chunks(first, header, total, len) :
        first \in BOOLEAN, header \in BOOLEAN, total \in 0..(MaxChunked + 1), len \in 0..MaxChunked}

addr_book_chunk ==
    /\ MaySend
    /\ \E r \in PayloadChunks :
          /\ r.status # "COMPLETE"
          /\ abChunks' = [total |-> r.total, received |-> r.received]
          /\ abAnswer' = IF r.status = "ERROR" THEN "SWO_INCORRECT_DATA" ELSE "SWO_SUCCESS"
    /\ stored' = {}
    /\ UNCHANGED <<g_ab_payload, review, shown, proofs, groups, attested, reviews>>

addr_book_command(p1, accepted) ==
    /\ MaySend
    /\ \E r \in PayloadChunks : r.status = "COMPLETE" /\ abChunks' = [total |-> r.total, received |-> r.received]
    /\ \E p \in HostSent(p1) :
          LET out == Handled(p1, p, accepted)
          IN  /\ abAnswer' = out.sw
              /\ g_ab_payload' = out.payload
              /\ stored' = out.contact
              /\ review' = IF out.review = NoReview THEN review ELSE out.review
              /\ shown' = IF out.review = NoReview THEN shown ELSE out.payload
    /\ UNCHANGED <<proofs, groups, attested, reviews>>

(***************************************************************************)
(* What the user confirms with a review: what its screens show.  The       *)
(* reviews of an account are displayed by the application.                 *)
(***************************************************************************)
Place(d, gid) == <<"place", gid, d.scope, d.id, NetworkBytes(d.network)>>

register_ui_display(d, gid) == {<<"name", gid, d.name>>, Place(d, gid)}

edit_contact_name_ui_display(d, gid) == {<<"name", gid, d.name>>}

edit_identifier_ui_display(d, gid) == {Place(d, gid)}

edit_scope_ui_display(d, gid) == {Place(d, gid)}

display_account(d) == {<<"account", d.path, d.name, NetworkBytes(d.network)>>}

Facts(flow, d, gid) ==
    CASE flow = "register" -> register_ui_display(d, gid)
      [] flow = "edit_contact_name" -> edit_contact_name_ui_display(d, gid)
      [] flow = "edit_identifier" -> edit_identifier_ui_display(d, gid)
      [] flow = "edit_scope" -> edit_scope_ui_display(d, gid)
      [] flow \in {"register_ledger_account", "edit_ledger_account"} -> display_account(d)

(***************************************************************************)
(* review_choice: a confirmed review is answered with what g_ab_payload    *)
(* holds by then, and with an error if a syscall fails; the status screen  *)
(* that follows changes nothing here.                                      *)
(***************************************************************************)
Answered(sw) ==
    /\ abAnswer' = sw
    /\ review' = NoReview /\ shown' = ClearedPayload /\ g_ab_payload' = ClearedPayload
    /\ UNCHANGED <<abChunks, stored>>

NewGroup == review = "register" /\ ~g_ab_payload.active

review_confirmed ==
    /\ review # NoReview /\ reviews < MaxReviews
    /\ NewGroup => groups < MaxGroups
    /\ proofs' = proofs \cup Response(review, g_ab_payload)
    /\ attested' = attested \cup Facts(review, shown, IF NewGroup THEN groups + 1 ELSE shown.gid)
    /\ groups' = IF NewGroup THEN groups + 1 ELSE groups
    /\ reviews' = reviews + 1
    /\ Answered("SWO_SUCCESS")

review_failed ==
    /\ review # NoReview
    /\ Answered("SWO_INCORRECT_DATA")
    /\ UNCHANGED <<proofs, groups, attested, reviews>>

address_book_handle_review_rejected ==
    /\ review # NoReview
    /\ Answered("SWO_INCORRECT_DATA")
    /\ UNCHANGED <<proofs, groups, attested, reviews>>

AbNext ==
    \/ addr_book_chunk
    \/ \E p1 \in Commands, accepted \in BOOLEAN : addr_book_command(p1, accepted)
    \/ review_confirmed
    \/ review_failed
    \/ address_book_handle_review_rejected

AbSpec == AbInit /\ [][AbNext]_abVars

-----------------------------------------------------------------------------
ProofOf(f) ==
    CASE f[1] = "name" -> HmacProof(f[2], f[3])
      [] f[1] = "place" -> HmacRest(f[2], f[3], f[4], f[5])
      [] f[1] = "account" -> HmacAccount(f[2], f[3], f[4])

=============================================================================
