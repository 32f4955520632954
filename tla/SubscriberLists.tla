-------------------------- MODULE SubscriberLists --------------------------
(***************************************************************************)
(* The lists loan-availment imports from an SFTP server - subscribers who  *)
(* may not have a loan, subscribers who may have one product - beside the  *)
(* requests that read them.  A request of an endpoint takes the first file *)
(* it finds in the input directory, copies it, cleans it, brings the       *)
(* database in line with it call by call, moves it to the processed        *)
(* directory, and stops at the first error.  One import runs at a time:    *)
(* nothing in the code sees to that, and two would share the local copy.   *)
(***************************************************************************)
EXTENDS Naturals

CONSTANTS
    Numbers,      \* subscribers
    Known,        \* those with a document in Subscribers from the start
    Files,        \* files that may be put into the input directory
    KindOf,       \* "black" or "white"; all white ones are for one product
    NameOf,       \* names of files: those for one product have the same
    Rows,         \* numbers in a file, with the form they have there
    Applicants,   \* requests for the product
    NumberOf,     \* and who they are for
    Nil,          \* no file, and no key
    ListTroubles  \* mongo, sftp: a call fails; crash: the instance dies;
                  \* replace: a file is replaced while it is imported

\* As stored by a request (ten digits), with a prefix, and not a number at all.
Forms == {"short", "long", "bad"}

ASSUME ListAssumption ==
    /\ Known \subseteq Numbers
    /\ KindOf \in [Files -> {"black", "white"}]
    /\ Rows \in [Files -> SUBSET (Numbers \X Forms)]
    /\ \A f, g \in Files : NameOf[f] = NameOf[g] => KindOf[f] = KindOf[g]
    /\ NumberOf \in [Applicants -> Numbers]
    /\ Nil \notin Files \cup Applicants \cup (Numbers \X Forms)
    /\ ListTroubles \subseteq {"mongo", "sftp", "crash", "replace"}

VARIABLES
    fresh,       \* files not yet put into the input directory
    inbox,       \* files there
    processed,   \* files moved to the processed directory
    imp,         \* the import: where it is, its file, the keys it still has to
                 \* write and the one it is at
    records,     \* documents of Subscribers: the key, and who created it
    blacklisted, \* those with blacklisted set
    whitelist,   \* keys in WhitelistedSubs
    request,     \* where each request is
    warned,      \* requests that came in after a blacklist was applied
    applied,     \* files that were applied to the database, at any time
    replaced     \* files another of their name took the place of

listVars == <<fresh, inbox, processed, imp, records, blacklisted, whitelist,
              request, warned, applied, replaced>>
files    == <<fresh, inbox, processed, replaced>>
database == <<records, blacklisted, whitelist>>
requests == <<request, warned>>

Stored(n) == <<n, "short">>
Keys      == Numbers \X {"short", "long"}
Creators  == Files \cup Applicants \cup {Nil}
Documents == Keys \X Creators
Idle      == [at |-> "idle", file |-> Nil, left |-> {}, key |-> Nil]

Places == {"new", "create", "keyword", "blacklist", "product", "whitelist", "mappings",
           "granted", "refused"}

ListTypeOK ==
    /\ fresh \subseteq Files /\ inbox \subseteq Files /\ processed \subseteq Files
    /\ imp.at \in {"idle", "list", "find", "insert", "allow", "remove", "upload"}
    /\ imp.file \in Files \cup {Nil} /\ imp.left \subseteq Keys /\ imp.key \in Keys \cup {Nil}
    /\ imp.at # "idle" => imp.file \in Files
    /\ imp.at \in {"remove", "upload"} => imp.left = {}
    /\ records \subseteq Documents /\ blacklisted \subseteq records /\ whitelist \subseteq Keys
    /\ request \in [Applicants -> Places]
    /\ warned \subseteq Applicants /\ applied \subseteq Files /\ replaced \subseteq Files

ListInit ==
    /\ fresh = Files /\ inbox = {} /\ processed = {}
    /\ imp = Idle
    /\ records = {<<Stored(n), Nil>> : n \in Known}
    /\ blacklisted = {} /\ whitelist = {}
    /\ request = [a \in Applicants |-> "new"] /\ warned = {}
    /\ applied = {} /\ replaced = {}

\* Files with the list of the blacklisted, and with the list of the product.
Blacklists == {f \in Files : KindOf[f] = "black"}
Whitelists == {f \in Files : KindOf[f] = "white"}

Fails(t) == t \in ListTroubles
DocumentsOf(k) == {d \in records : d[1] = k}

\* The keys of a file: the rows that pass IsValidMSISDN, as they are there.
KeysIn(f) == Rows[f] \cap Keys

-----------------------------------------------------------------------------
(* The import.                                                             *)

Importing(name) == imp.at # "idle" /\ NameOf[imp.file] = name

\* A file comes in, or takes the place of one of its name.
Deposit(f) ==
    /\ f \in fresh /\ fresh' = fresh \ {f}
    /\ Fails("replace") \/ ~Importing(NameOf[f])
    /\ inbox' = {g \in inbox : NameOf[g] # NameOf[f]} \cup {f}
    /\ replaced' = replaced \cup (inbox \ inbox')
    /\ UNCHANGED <<processed, imp, database, requests, applied>>

\* An error answers the request: the file stays where it is, a local copy until
\* the next pull replaces it.
Stop == imp' = Idle
At(at) == imp' = [imp EXCEPT !.at = at]

FirstCall(f) == IF KindOf[f] = "black" THEN "list" ELSE "allow"

Picked(f) == [Idle EXCEPT !.at = FirstCall(f), !.file = f, !.left = KeysIn(f)]

\* Mutant: everybody is taken off the blacklist before the new one is written.
PullAndUnlist(kind) ==
    /\ imp.at = "idle"
    /\ \E f \in inbox : KindOf[f] = kind /\ imp' = Picked(f)
    /\ blacklisted' = IF kind = "black" THEN {} ELSE blacklisted
    /\ UNCHANGED <<files, records, whitelist, requests, applied>>

\* Mutant: and off the list of the product.
PullAndDisallow(kind) ==
    /\ imp.at = "idle"
    /\ \E f \in inbox : KindOf[f] = kind /\ imp' = Picked(f)
    /\ whitelist' = IF kind = "white" THEN {} ELSE whitelist
    /\ UNCHANGED <<files, records, blacklisted, requests, applied>>

\* PullCSVFromSFTP takes the first file the server lists, of either kind, and
\* UpdateAndValidateCSVFile... drops the rows that are not numbers.  A file for the
\* other endpoint, or one that cannot be read, is refused there and stays: a list
\* for a product has no reasons, a blacklist not the name of a product.
Pull(kind) ==
    /\ imp.at = "idle"
    /\ \E f \in inbox : KindOf[f] = kind /\ imp' = Picked(f)
    /\ UNCHANGED <<files, database, requests, applied>>

\* UpdateOne: one of the documents of the number.
List ==
    /\ imp.at = "list" /\ imp.left # {}
    /\ \/ \E k \in imp.left :
             /\ imp' = [imp EXCEPT !.at = "find", !.key = k]
             /\ IF DocumentsOf(k) = {} THEN UNCHANGED blacklisted
                ELSE \E d \in DocumentsOf(k) : blacklisted' = blacklisted \cup {d}
       \/ Fails("mongo") /\ Stop /\ UNCHANGED blacklisted
    /\ UNCHANGED <<files, records, whitelist, requests, applied>>

Written(at) == imp' = [imp EXCEPT !.at = at, !.left = @ \ {imp.key}, !.key = Nil]

\* FindOne.
Find ==
    /\ imp.at = "find"
    /\ \/ IF DocumentsOf(imp.key) = {} THEN At("insert") ELSE Written("list")
       \/ Fails("mongo") /\ Stop
    /\ UNCHANGED <<files, database, requests, applied>>

\* InsertOne, of a number that may have got a document since.
Insert ==
    /\ imp.at = "insert"
    /\ \/ /\ Written("list")
          /\ records' = records \cup {<<imp.key, imp.file>>}
          /\ blacklisted' = blacklisted \cup {<<imp.key, imp.file>>}
       \/ Fails("mongo") /\ Stop /\ UNCHANGED <<records, blacklisted>>
    /\ UNCHANGED <<files, whitelist, requests, applied>>

\* Mutant: the error of the last call is not looked at.
UnlistUnchecked ==
    /\ imp.at = "list" /\ imp.left = {}
    /\ At("remove")
    /\ \/ /\ blacklisted' = {d \in blacklisted : d[1] \in KeysIn(imp.file)}
          /\ applied' = applied \cup {imp.file}
       \/ Fails("mongo") /\ UNCHANGED <<blacklisted, applied>>
    /\ UNCHANGED <<files, records, whitelist, requests>>

\* Everybody else is taken off the blacklist.
Unlist ==
    /\ imp.at = "list" /\ imp.left = {}
    /\ \/ /\ At("remove")
          /\ blacklisted' = {d \in blacklisted : d[1] \in KeysIn(imp.file)}
          /\ applied' = applied \cup {imp.file}
       \/ Fails("mongo") /\ Stop /\ UNCHANGED <<blacklisted, applied>>
    /\ UNCHANGED <<files, records, whitelist, requests>>

\* Mutant: a number that cannot be written is left out.
AllowOrSkip ==
    /\ imp.at = "allow"
    /\ \E k \in imp.left :
          /\ imp' = [imp EXCEPT !.left = @ \ {k}]
          /\ whitelist' = whitelist \cup {k} \/ (Fails("mongo") /\ UNCHANGED whitelist)
    /\ UNCHANGED <<files, records, blacklisted, requests, applied>>

\* The upsert of a number for the product; all of them have five seconds.
Allow ==
    /\ imp.at = "allow"
    /\ \/ \E k \in imp.left :
             /\ imp' = [imp EXCEPT !.left = @ \ {k}]
             /\ whitelist' = whitelist \cup {k}
       \/ Fails("mongo") /\ Stop /\ UNCHANGED whitelist
    /\ UNCHANGED <<files, records, blacklisted, requests, applied>>

\* Everybody else is taken off the list of the product.
Disallow ==
    /\ imp.at = "allow" /\ imp.left = {}
    /\ \/ /\ At("remove")
          /\ whitelist' = whitelist \cap KeysIn(imp.file)
          /\ applied' = applied \cup {imp.file}
       \/ Fails("mongo") /\ Stop /\ UNCHANGED <<whitelist, applied>>
    /\ UNCHANGED <<files, records, blacklisted, requests>>

\* DeleteFileOnSFTP: whatever has the name of the file by now.
Remove ==
    /\ imp.at = "remove"
    /\ \/ At("upload") /\ inbox' = {g \in inbox : NameOf[g] # NameOf[imp.file]}
       \/ Fails("sftp") /\ Stop /\ UNCHANGED inbox
    /\ UNCHANGED <<fresh, processed, replaced, database, requests, applied>>

\* The rejected rows, if their file is found under the second it is looked for,
\* and the cleaned file; then the local copies go.
Upload ==
    /\ imp.at = "upload"
    /\ Stop
    /\ processed' = processed \cup {imp.file} \/ (Fails("sftp") /\ UNCHANGED processed)
    /\ UNCHANGED <<fresh, inbox, replaced, database, requests, applied>>

-----------------------------------------------------------------------------
(* The requests.                                                           *)

Steps(a, at) == request' = [request EXCEPT ![a] = at]

\* AddUpdateSubscriber, at the end of the validation, which gives the number its
\* stored form.  It leaves the flag of a document it finds; the request goes on
\* whatever comes of it.
Arrive(a) ==
    /\ request[a] = "new"
    /\ warned' = IF applied \cap Blacklists = {} THEN warned ELSE warned \cup {a}
    /\ \/ DocumentsOf(Stored(NumberOf[a])) = {} /\ Steps(a, "create")
       \/ DocumentsOf(Stored(NumberOf[a])) # {} /\ Steps(a, "keyword")
       \/ Fails("mongo") /\ Steps(a, "keyword")
    /\ UNCHANGED <<files, imp, database, applied>>

Create(a) ==
    /\ request[a] = "create" /\ Steps(a, "keyword")
    /\ \/ records' = records \cup {<<Stored(NumberOf[a]), a>>}
       \/ Fails("mongo") /\ UNCHANGED records
    /\ UNCHANGED <<files, imp, blacklisted, whitelist, warned, applied>>

OnlyRequest == UNCHANGED <<files, imp, database, warned, applied>>

\* Rules about what nothing here changes: they pass or refuse.
Rule(a, at, next) ==
    /\ request[a] = at
    /\ Steps(a, next) \/ Steps(a, "refused")
    /\ OnlyRequest

CheckKeyword(a) == Rule(a, "keyword", "blacklist")

\* CheckSubscriberBlacklisitng: one document of the number, or none.
CheckBlacklist(a) ==
    /\ request[a] = "blacklist"
    /\ \/ \E d \in DocumentsOf(Stored(NumberOf[a])) :
             Steps(a, IF d \in blacklisted THEN "refused" ELSE "product")
       \/ DocumentsOf(Stored(NumberOf[a])) = {} /\ Steps(a, "product")
       \/ Fails("mongo") /\ Steps(a, "refused")
    /\ OnlyRequest

\* With the open loan, see LoanAvailment.
CheckLoanProduct(a) == Rule(a, "product", "whitelist")

\* The product has a list.
CheckWhitelist(a) ==
    /\ request[a] = "whitelist"
    /\ \/ Stored(NumberOf[a]) \in whitelist /\ Steps(a, "mappings")
       \/ Stored(NumberOf[a]) \notin whitelist /\ Steps(a, "refused")
       \/ Fails("mongo") /\ Steps(a, "refused")
    /\ OnlyRequest

\* Channel, customer and brand type, the product for both, credit score.
CheckMappings(a) == Rule(a, "mappings", "granted")

-----------------------------------------------------------------------------

Busy(a) == request[a] \in Places \ {"new", "granted", "refused"}

\* The instance dies: import and requests end where they are, and what was only
\* in the local copy is gone.
InstanceDies ==
    /\ Fails("crash") /\ (imp # Idle \/ \E a \in Applicants : Busy(a))
    /\ imp' = Idle
    /\ request' = [a \in Applicants |-> IF Busy(a) THEN "refused" ELSE request[a]]
    /\ UNCHANGED <<files, database, warned, applied>>

\* The calls of the two endpoints; the last two are the same.
BlacklistSubs             == Pull("black") \/ List \/ Find \/ Insert \/ Unlist
WhitelistSubsForProductId == Pull("white") \/ Allow \/ Disallow
ImportStep == BlacklistSubs \/ WhitelistSubsForProductId \/ Remove \/ Upload

CheckEligibility(a) ==
    \/ CheckKeyword(a) \/ CheckBlacklist(a) \/ CheckLoanProduct(a)
    \/ CheckWhitelist(a) \/ CheckMappings(a)

RequestStep(a) == Arrive(a) \/ Create(a) \/ CheckEligibility(a)

ListNext ==
    \/ \E f \in Files : Deposit(f)
    \/ ImportStep \/ InstanceDies
    \/ \E a \in Applicants : RequestStep(a)

ListSpec == ListInit /\ [][ListNext]_listVars

-----------------------------------------------------------------------------
(* Properties.                                                             *)

\* A subscriber who has a document and is on every blacklist, in the form that is
\* looked for, is refused from the first blacklist on: also while later ones are
\* imported, fail halfway, or are tried again.
ListedIsRefused ==
    \A a \in Applicants :
        /\ request[a] = "granted"
        /\ NumberOf[a] \in Known
        /\ \A f \in Blacklists : Stored(NumberOf[a]) \in Rows[f]
        => a \notin warned

\* A file leaves the input directory only when the database says what it says,
\* about every subscriber known from the start and the whole product: failed
\* imports leave it there to be tried again.
RemovedWhenApplied ==
    imp.at = "remove" =>
        IF imp.file \in Blacklists
          THEN \A n \in Known :
                  (<<Stored(n), Nil>> \in blacklisted) = (Stored(n) \in KeysIn(imp.file))
          ELSE whitelist = KeysIn(imp.file)

\* Nothing leaves the input directory that was not applied, unless a newer file of
\* its name took its place: whatever fails, is tried again, or dies on the way.
NothingLost == Files \ (fresh \cup inbox) \subseteq applied \cup replaced

\* A subscriber on every list of the product who is on it once stays on it while
\* later lists are imported or fail.
AllowedStays ==
    [][\A k \in whitelist : (\A f \in Whitelists : k \in KeysIn(f)) => k \in whitelist']_listVars
=============================================================================
