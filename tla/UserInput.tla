------------------------------ MODULE UserInput ------------------------------
(***************************************************************************)
(* What a text must be like to become a username or a password:            *)
(* internal/users/model.go and db/model.go, which count bytes, and the     *)
(* documents that promise something about it, which count characters.      *)
(*                                                                         *)
(* A text is known by its number of characters, of bytes in UTF-8, and by  *)
(* whether it is made of the characters a-z, A-Z, 0-9, _ and - only.       *)
(***************************************************************************)
EXTENDS Naturals

IsText(t) ==
    /\ t \in [chars : Nat, bytes : Nat, plain : BOOLEAN]
    /\ t.chars <= t.bytes /\ t.bytes <= 4 * t.chars
    /\ t.plain => t.bytes = t.chars

\* Username.IsValid
UsernameErr(t) ==
    IF t.bytes < 3 THEN {"ErrUsernameTooShort"}
    ELSE IF t.bytes > 32 THEN {"ErrUsernameTooLong"} ELSE {}

\* A faulty PasswordErr: characters are counted, as in users.proto.
PasswordErrInChars(t) ==
    IF t.chars < 8 THEN {"ErrPasswordTooShort"}
    ELSE IF t.chars > 64 THEN {"ErrPasswordTooLong"} ELSE {}

\* Password.IsValid
PasswordErr(t) ==
    IF t.bytes < 8 THEN {"ErrPasswordTooShort"}
    ELSE IF t.bytes > 64 THEN {"ErrPasswordTooLong"} ELSE {}

\* Password.Hash: bcrypt refuses what is longer than 72 bytes.
HashErr(t) == IF t.bytes > 72 THEN {"ErrPasswordTooLong of bcrypt"} ELSE {}

\* newNewUser joins the errors of both fields, and hashes only without any.
NewNewUserErr(username, password) ==
    LET errs == UsernameErr(username) \cup PasswordErr(password)
    IN  IF errs # {} THEN errs ELSE HashErr(password)

\* The rules users.proto (lines 17-30) has for a CreateUserRequest.
ProtoAccepts(username, password) ==
    /\ username.chars \in 3..32
    /\ password.chars \in 8..64

\* The username of a User in openapi.yml (lines 425-430).
OpenApiUsername(t) == t.plain /\ t.chars \in 3..32
=============================================================================
