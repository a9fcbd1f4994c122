-------------------------------- MODULE Binding --------------------------------
(***************************************************************************)
(* Context.Bind (binding.go): the body and the other sources of a request, *)
(* bound to the fields of a struct.  The destination is a pointer to a     *)
(* struct.                                                                 *)
(*                                                                         *)
(* A request r carries its media type, what its body is, what Validate of  *)
(* the destination says, and for each source the value it has for a field: *)
(* Absent, "bad" (the field's type refuses it) or a value.                 *)
(***************************************************************************)
EXTENDS HttpErrors, Sequences

CONSTANTS
    Fields,  \* the fields of the destination
    Tags     \* the sources that the tags of each field name, "json" and "form" too

Absent == "none"

\* bindingMetadataFor: a field that names other sources and not JSON.  (encoding/json
\* matches a field without a json tag by its name.)
Implicit(f) == Tags[f] # {} /\ "json" \notin Tags[f]

FormTypes == {"form", "multipart"}

\* parseForm under the body limit.
ParseForm(r) ==
    IF r.contentType \notin FormTypes THEN HTTPError(415)
    ELSE CASE r.body = "large" -> HTTPError(413)
           [] r.body = "malformed" -> HTTPError(400)
           [] OTHER -> NoError

\* bindJSON: one value and nothing after it; the limit may be met in what follows it.
BindJSON(r) ==
    IF r.contentType \notin {"none", "json"} THEN HTTPError(415)
    ELSE CASE r.body = "large" -> HTTPError(413)
           [] r.body = "mistyped" -> Fault("invalid")
           [] r.body \in {"empty", "malformed", "two", "tail"} -> HTTPError(400)
           [] OTHER -> NoError

\* bindRequestValues, for one source.
Refused(r, source) == \E f \in Fields : source \in Tags[f] /\ r.values[source][f] = "bad"

BindSource(r, dest, source) ==
    [f \in Fields |-> IF source \in Tags[f] /\ r.values[source][f] # Absent
                      THEN r.values[source][f] ELSE dest[f]]

\* bindJSONPreservingExplicitFields: the fields are saved, JSON sets all that it names,
\* and the saved ones are put back.
BindBody(r, dest) ==
    IF r.contentType = "json"
    THEN LET decoded == [f \in Fields |-> IF r.values["json"][f] # Absent THEN r.values["json"][f] ELSE dest[f]]
         IN  [f \in Fields |-> IF Implicit(f) THEN dest[f] ELSE decoded[f]]
    ELSE IF r.contentType \in FormTypes THEN BindSource(r, dest, "form") ELSE dest

BodyError(r) ==
    CASE r.contentType = "none" -> NoError
      [] r.contentType = "json" -> BindJSON(r)
      [] r.contentType \in FormTypes ->
           IF ParseForm(r) # NoError THEN ParseForm(r)
           ELSE IF Refused(r, "form") THEN Fault("invalid") ELSE NoError
      [] OTHER -> HTTPError(415)

\* validateBinding: a fault is passed on, another error becomes one.
Validate(r) ==
    CASE r.valid = "yes" -> NoError
      [] r.valid \in DOMAIN FaultStatus -> Fault(r.valid)
      [] OTHER -> Fault("invalid")

Sources == <<"cookie", "header", "query", "path">>

\* Bind: the body first, then the other sources, of which the later ones win.
Bind(r) ==
    LET zero == [f \in Fields |-> Absent]
        error == IF BodyError(r) # NoError THEN BodyError(r)
                 ELSE IF \E i \in DOMAIN Sources : Refused(r, Sources[i]) THEN Fault("invalid")
                 ELSE Validate(r)
        upTo[i \in 0..Len(Sources)] ==
            IF i = 0 THEN BindBody(r, zero) ELSE BindSource(r, upTo[i - 1], Sources[i])
    IN  [err |-> error, dest |-> upTo[Len(Sources)]]

\* ParseMultipartForm puts large parts into temporary files.
StoresFiles(r) == r.contentType = "multipart" /\ ParseForm(r) = NoError /\ r.body = "files"
================================================================================
