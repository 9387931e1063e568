----------------------------- MODULE QueryData -----------------------------
(***************************************************************************)
(* Request elements, the tables they are stored in and what the database   *)
(* and the last-message cache hold for them: shared by the models of the   *)
(* query handlers.  The rows of an element are one value; the time range,  *)
(* columns and formatting of a query are left out here.                    *)
(***************************************************************************)
EXTENDS Naturals, Sequences

CONSTANTS User, NoUser,
          Source,    \* what a client may ask for: an export, or a device's service
          Export,    \* the sources that are exports
          Location,  \* the sources given by a location id, which have no table
          OwnerOf,   \* the owner of an export
          Cachable   \* sources whose element GetLastValuesFromCache may answer

ASSUME QueryDataAssumption ==
    /\ NoUser \notin User
    /\ Export \subseteq Source /\ Location \subseteq Source /\ Cachable \subseteq Source
    /\ OwnerOf \in [Source -> User \cup {NoUser}]
    /\ \A s \in Source \ Export : OwnerOf[s] = NoUser
    /\ Export \cap Location = {} /\ Export \cap Cachable = {} /\ Location \cap Cachable = {}

(* tableName: "userid:<owner>_export:<id>" or "device:<id>_service:<id>".  *)
(* For an element with a group time it asks the database, by a query of    *)
(* its own, for a continuous aggregate of the hypertable of that name with *)
(* the element's columns and a bucket that is small enough; found says     *)
(* that this query named one.  Its failure is no error: the element then   *)
(* reads the table.                                                        *)
tableName(s, owner, found) ==
    LET of == IF s \in Export THEN owner ELSE NoUser
    IN  [source |-> s, owner |-> of, view |-> found /\ of = OwnerOf[s]]
Table == [source : Source, owner : User \cup {NoUser}, view : BOOLEAN]

(* A source's own table, or a view of it: an export's is named after its   *)
(* owner.                                                                  *)
IsOwnTable(t, s) == t.source = s /\ t.owner = OwnerOf[s]

Rows == [from : {"cache", "db"}, of : Source]
Nil  == [from |-> "nil", of |-> NoUser]     \* a result slot nothing was written to
CachedRow(s) == [from |-> "cache", of |-> s]
DbRows(s)    == [from |-> "db", of |-> s]
RowsFor(s) == {DbRows(s)} \cup {CachedRow(x) : x \in {s} \cap Cachable}

(* GetHTTPErrorCode, then GetError and GetStatusCode: 502 and the 200 of a *)
(* warning reach the client as 500.                                        *)
DbErrorCode == {200, 400, 404, 500, 502}
GetStatusCode(code) == IF code \in {400, 403, 404} THEN code ELSE 500
FailureStatus == {400, 404, 500}
NoRequest == 0     \* no request yet
Pending   == 1     \* a request is being handled, its status is not written

(* ExecuteQueries seen from its callers (module QueryPool): if any         *)
(* query fails the error is that of one failed query and the data is not   *)
(* used; otherwise data[k] belongs to queries[k].  A query for a table     *)
(* that does not exist fails with undefined_table, which is a 400.         *)
Exists(t) == IsOwnTable(t, t.source)
NoSuchTable(queries) == \E k \in DOMAIN queries : ~ Exists(queries[k])
ExecErrors(queries) ==
    IF queries = <<>> THEN {}
    ELSE IF \A k \in DOMAIN queries : ~ Exists(queries[k]) THEN {400}
    ELSE DbErrorCode
ExecData(queries) == [k \in DOMAIN queries |-> DbRows(queries[k].source)]

(* A client's request body: up to max elements.                            *)
Requests(max) == UNION {[1 .. n -> Source] : n \in 0 .. max}
=============================================================================
