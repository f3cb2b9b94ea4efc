------------------------------ MODULE Governance ------------------------------
(***************************************************************************)
(* What may leave a store: the classification rules of                     *)
(* src/packages/platform/src/classification at the three sinks that apply  *)
(* them, an event (the catalogue of src/packages/api-contracts and the     *)
(* envelope), an audit row (the metadata guard) and a log line.  A pure    *)
(* module; its promises are assumptions over bounded inputs.               *)
(***************************************************************************)
EXTENDS Integers, Sequences, FiniteSets

Classes == {"PUBLIC", "INTERNAL", "CONFIDENTIAL", "HIGHLY_SENSITIVE_FINANCIAL", "SECRET", "SEALED"}

\* What stands for a value, or the value itself.
Raw == "raw"

RedactionFor(class) ==
  CASE class = "SEALED" -> "[sealed]"
    [] class = "SECRET" -> "[redacted:secret]"
    [] class = "HIGHLY_SENSITIVE_FINANCIAL" -> "[redacted:hsf]"
    [] OTHER -> Raw

IsLoggable(class) == class \notin {"SECRET", "SEALED"}

\* A log line carries no confidential value either.
Classified(class) == IF class = "CONFIDENTIAL" THEN "[redacted]" ELSE RedactionFor(class)

-----------------------------------------------------------------------------
(* Events.  A payload maps its fields to the JSON types of their values.   *)

IsIdField(field) == field \in {"id", "accountId"}
IsOccurredAt(field) == field = "occurredAt"

\* An exemption names an owner, a reason and a reviewer; "absent", "partial"
\* or "complete" is what is known of one.
Exemptions == {"absent", "partial", "complete"}

EventPayloadAllowed(class, fields, exemption) ==
  CASE class = "SECRET" -> FALSE
    [] class = "SEALED" -> \A f \in fields : IsIdField(f) \/ f = "status" \/ IsOccurredAt(f)
    [] class = "HIGHLY_SENSITIVE_FINANCIAL" ->
         exemption = "complete" \/ \A f \in fields : IsIdField(f) \/ IsOccurredAt(f)
    [] OTHER -> TRUE

FieldTypes == {"string", "number", "boolean"}

\* properties maps the declared fields to their types; closed says that
\* additionalProperties is false.
ParsesSchema(schema) ==
  /\ schema.closed
  /\ \A f \in DOMAIN schema.properties : schema.properties[f] \in FieldTypes
  /\ schema.required \subseteq DOMAIN schema.properties

Rules == {"identifier-only", "identifiers-and-status", "payload-permitted"}

\* A partial exemption is itself a problem.
ParsesEventEntry(entry) ==
  /\ entry.schemaVersion >= 1
  /\ entry.class \in Classes
  /\ entry.rule \in Rules
  /\ entry.consumers # {}
  /\ entry.exemption # "partial"
  /\ ParsesSchema(entry.schema)
  /\ CASE entry.class = "SEALED" ->
            entry.rule # "payload-permitted" /\ entry.exemption = "absent"
       [] entry.class = "HIGHLY_SENSITIVE_FINANCIAL" ->
            entry.rule = "identifier-only" \/ entry.exemption = "complete"
       [] OTHER -> entry.exemption = "absent"

\* One bad entry or a name used twice and there is no catalogue.
ParsesCatalogue(entries) ==
  /\ \A i \in DOMAIN entries : ParsesEventEntry(entries[i])
  /\ \A i, j \in DOMAIN entries : entries[i].name = entries[j].name => i = j

EventEntry(entries, name) == {entries[i] : i \in {i \in DOMAIN entries : entries[i].name = name}}

ConsumerAllowed(entries, name, consumer) ==
  \E entry \in EventEntry(entries, name) : consumer \in entry.consumers

PayloadMatchesSchema(schema, payload) ==
  /\ schema.required \subseteq DOMAIN payload
  /\ \A f \in DOMAIN payload :
       f \in DOMAIN schema.properties /\ payload[f] = schema.properties[f]

\* given says what was passed as producer, correlation, causation and
\* tenant: "absent", "empty" or "named".  The empty set is a refusal.
MakeEnvelope(entries, name, payload, given) ==
  {[eventName |-> name, schemaVersion |-> entry.schemaVersion, class |-> entry.class,
    fields |-> DOMAIN payload] :
     entry \in {entry \in EventEntry(entries, name) :
                  /\ PayloadMatchesSchema(entry.schema, payload)
                  /\ EventPayloadAllowed(entry.class, DOMAIN payload, entry.exemption)
                  /\ given.producer = "named"
                  /\ \A field \in DOMAIN given : given[field] # "empty"}}

-----------------------------------------------------------------------------
(* Audit metadata.  An entry is what the patterns find in its key, the     *)
(* class its value was marked with, if any, and whether it is nested.      *)

Unmarked == "unmarked"

Patterns == {"secret", "financial", "identifier"}

Entry(found, class, nested) == [found |-> found, class |-> class, nested |-> nested]

Stores(entry) ==
  /\ "secret" \notin entry.found
  /\ entry.class \notin {"SEALED", "SECRET"}
  /\ ~entry.nested
  /\ \/ entry.class = "HIGHLY_SENSITIVE_FINANCIAL"
     \/ "financial" \notin entry.found
     \/ "identifier" \in entry.found

Stored(entry) ==
  IF entry.class = "HIGHLY_SENSITIVE_FINANCIAL" /\ "identifier" \notin entry.found
  THEN RedactionFor(entry.class) ELSE Raw

\* The metadata is refused as a whole, and when it outgrows 4096 bytes.
GuardMetadata(metadata, oversize) ==
  IF ~oversize /\ \A key \in DOMAIN metadata : Stores(metadata[key])
  THEN {[key \in DOMAIN metadata |-> Stored(metadata[key])]} ELSE {}

-----------------------------------------------------------------------------
(* What the rules promise.                                                 *)

SampleFields == {"id", "status", "occurredAt", "amount"}

SampleSchemas == {[closed |-> closed, required |-> {"id"}, properties |-> [f \in fields |-> "string"]] :
                    closed \in BOOLEAN, fields \in SUBSET SampleFields}

SampleEntries ==
  {[name |-> "ping", schemaVersion |-> 1, class |-> class, rule |-> rule, consumers |-> {"worker"},
    exemption |-> exemption, schema |-> schema] :
     class \in Classes, rule \in Rules, exemption \in Exemptions, schema \in SampleSchemas}

\* Whatever the catalogue declares, a secret never becomes an event, a
\* sealed event carries identifiers and status only, and a financial detail
\* is in one only under an exemption somebody reviewed (classification.ts,
\* event-governance.md section 3).
ASSUME EnvelopesObeyTheirClass ==
  \A entry \in SampleEntries, fields \in SUBSET SampleFields :
    LET made == MakeEnvelope(<<entry>>, "ping", [f \in fields |-> "string"], [producer |-> "named"])
    IN \A envelope \in made :
         ParsesCatalogue(<<entry>>) =>
           /\ envelope.class # "SECRET"
           /\ envelope.class = "SEALED" => "amount" \notin envelope.fields
           /\ envelope.class = "HIGHLY_SENSITIVE_FINANCIAL" /\ entry.exemption # "complete" =>
                envelope.fields \subseteq {"id", "occurredAt"}

\* An audit row holds nothing a log line of the same value may not hold,
\* save for an identifier or an internal detail of the row, and no value of
\* a key that names a credential (audit-metadata-guard.ts, MODULE.md).
ASSUME AuditHoldsNoContent ==
  \A found \in SUBSET Patterns, class \in Classes \cup {Unmarked}, nested \in BOOLEAN :
    LET entry == Entry(found, class, nested)
    IN \A row \in GuardMetadata([key |-> entry], FALSE) :
         /\ "secret" \notin found /\ ~nested
         /\ class # Unmarked => IsLoggable(class)
         /\ row.key = Raw /\ "identifier" \notin found =>
              "financial" \notin found /\ class # "HIGHLY_SENSITIVE_FINANCIAL"
         /\ row.key # Raw => row.key = Classified(class)
=============================================================================
