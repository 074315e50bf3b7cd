------------------------------- MODULE Access --------------------------------
(***************************************************************************)
(* The checks of src/src/auth and of on_connect that decide whether a      *)
(* client gets in and what it may subscribe to.  Both backends of each     *)
(* kind: the one that allows everything and the one that reads a file, of  *)
(* which the parsed entries are the constants.                             *)
(***************************************************************************)
EXTENDS PacketCodec, FiniteSets

CONSTANTS
    PROTOCOL_NAME, PROTOCOL_LEVEL,
    MaxClientId, \* bytes of a client id (23)
    AuthFile,    \* FALSE for the backend "allowall" of [auth]
    Passwords,   \* the password file: pairs of user name and password, one per name
    AclFile,     \* FALSE for the backend "allowall" of [acl]
    Rules        \* the ACL file: records with client_id, permission and topic_filter

ACCEPTED                      == 0
UNACCEPTABLE_PROTOCOL_VERSION == 1
IDENTIFIER_REJECTED           == 2
BAD_USERNAME_OR_PASSWORD      == 4

FAILURE           == 128
MAX_SUPPORTED_QOS == 2

Alphanumeric == 48..57 \cup 65..90 \cup 97..122

validate_client_id(id, clean_session) ==
    IF id = <<>> THEN clean_session
    ELSE Len(id) <= MaxClientId /\ \A i \in DOMAIN id : id[i] \in Alphanumeric

\* Name and password must both be given and be those of one line of the file.
authenticate(username, password) ==
    AuthFile =>
        /\ username # <<>> /\ password # <<>>
        /\ NotUtf8 \notin ToSet(password[1])
        /\ <<username[1], password[1]>> \in Passwords

\* A rule allows exactly the filter it names: '+' and '#' in it are characters.
authorize_subscribe(client_id, topic_filter) ==
    AclFile =>
        \E rule \in Rules :
            /\ rule.client_id = client_id
            /\ rule.permission \in {"sub", "pubsub"}
            /\ rule.topic_filter = topic_filter

\* The return code on_connect decides on, its checks in the code's order.
ConnectCode(p) ==
    IF p.protocol_name # PROTOCOL_NAME \/ p.protocol_level # PROTOCOL_LEVEL
    THEN UNACCEPTABLE_PROTOCOL_VERSION
    ELSE IF ~validate_client_id(p.client_id, p.clean_session) THEN IDENTIFIER_REJECTED
    ELSE IF ~authenticate(p.username, p.password) THEN BAD_USERNAME_OR_PASSWORD
    ELSE ACCEPTED
=============================================================================
