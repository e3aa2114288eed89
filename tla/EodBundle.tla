----------------------------- MODULE EodBundle -----------------------------
(***************************************************************************)
(* Reading a TraderX end-of-day bundle (src/engine/traderx/bundle.py) and  *)
(* joining its rows to their terms (src/engine/traderx/terms.py).          *)
(*                                                                         *)
(* A bundle is a directory of four files.  load_bundle reads the manifest, *)
(* then each file, one at a time, while an exporter may be writing the     *)
(* next export over them; a checkout may have rewritten or lost a file.    *)
(***************************************************************************)
EXTENDS EodPricing

CONSTANTS
  Arrivals,     \* pairs of exports, each a whole bundle or Nothing: the second
                \* is being written over the first
  Damages       \* what may have become of a file: "crlf", "truncated", "lost"

Artifacts == {"positions", "contracts", "instrumentTerms"}
Files     == {"manifest"} \cup Artifacts

VARIABLES
  disk,         \* each file: the export it is of, and its damage
  arriving,     \* the export being written over the directory, or Nothing
  todo,         \* the files load_bundle has still to read, in order
  read,         \* the bytes of each file as they were read, or Nothing
  joined,       \* the rows with their terms entries, or Nothing before the join
  refused       \* why the submission failed, or Nothing

bundleVars == <<disk, arriving, todo, read, joined, refused>>

BundleInit ==
  \E pair \in Arrivals, damaged \in Files \cup {Nothing}, d \in Damages :
    /\ disk = [f \in Files |-> [of |-> pair[1], damage |-> IF f = damaged THEN d ELSE "none"]]
    /\ arriving = pair[2]
    /\ todo = <<"manifest", "positions", "contracts", "instrumentTerms">>
    /\ read = [f \in Files |-> Nothing]
    /\ joined = Nothing
    /\ refused = Nothing

\* The exporter writes a file of the next export.
Export(f) ==
  /\ arriving # Nothing
  /\ disk[f].of # arriving
  /\ disk' = [disk EXCEPT ![f] = [of |-> arriving, damage |-> "none"]]
  /\ UNCHANGED <<arriving, todo, read, joined, refused>>

----------------------------------------------------------------------------
(* Each file is checked as it is read: bytes is what was read of it, and   *)
(* the manifest what was read first.                                       *)

Manifest == read["manifest"].of

Verified_SizeOnly(f, bytes) == bytes.damage = "none"

\* The hash is of the bytes as they are on disk; two exports may hold the same.
Verified(f, bytes) ==
  /\ bytes.damage = "none"
  /\ bytes.of[f].content = Manifest[f].content

\* What a file's text parses to: line ends do not matter, lost lines do.
Parsed(f, bytes) ==
  LET content == bytes.of[f].content
  IN IF bytes.damage = "truncated" THEN [content EXCEPT !.rows = Front(@)] ELSE content

ManifestAccepted(bytes) == /\ bytes.damage \notin {"lost", "truncated"}
                           /\ bytes.of.schema \in {"v1", "v2"}
                           /\ bytes.of.keys

\* The manifest's count, the preamble's and the rows themselves agree.
CountsAgree(csv, declared) == Len(csv.rows) = declared /\ csv.counted \in {Nothing, declared}

\* What the preamble repeats of the cut agrees with the manifest.
CutAgrees(csv) == csv.cut \in {Nothing, Manifest.cut}

REQUIRED_COLUMNS == [positions |-> {"accountId", "security", "quantity"},
                     contracts |-> {"contractId", "accountId"}]

\* Required columns are in the header, and no row is longer than the header or
\* too short to have them.
ColumnsFit(f, csv) == REQUIRED_COLUMNS[f] \subseteq csv.columns /\ ~csv.ragged

CsvAccepted(f, bytes) ==
  /\ Manifest[f].listed
  /\ bytes.damage # "lost"
  /\ Verified(f, bytes)
  /\ CountsAgree(Parsed(f, bytes), Manifest[f].declared)
  /\ CutAgrees(Parsed(f, bytes))
  /\ ColumnsFit(f, Parsed(f, bytes))

HasTerms == Manifest.schema = "v2"

\* A v1 bundle has no terms artifact; a v2 bundle has one, verified and whole.
TermsAccepted(f, bytes) ==
  /\ Manifest[f].listed <=> HasTerms
  /\ HasTerms => /\ bytes.damage # "lost"
                 /\ Verified(f, bytes)
                 /\ Len(Parsed(f, bytes).rows) = Manifest[f].declared

Accepted(f, bytes) == CASE f = "manifest"        -> ManifestAccepted(bytes)
                        [] f = "instrumentTerms" -> TermsAccepted(f, bytes)
                        [] OTHER                 -> CsvAccepted(f, bytes)

ReadFile ==
  /\ todo # <<>> /\ refused = Nothing
  /\ LET f == Head(todo)
     IN /\ read' = [read EXCEPT ![f] = disk[f]]
        /\ refused' = IF Accepted(f, disk[f]) THEN Nothing ELSE "BUNDLE_INTEGRITY_FAILED"
  /\ todo' = Tail(todo)
  /\ UNCHANGED <<disk, arriving, joined>>

----------------------------------------------------------------------------
(* The join.                                                               *)

TERMS_ENTRY_NOT_FOUND == "TERMS_ENTRY_NOT_FOUND"
MIN_FRACTION_DECIMALS == 1
MAX_FRACTION_DECIMALS == 12

Terms == Parsed("instrumentTerms", read["instrumentTerms"])
Rows  == Parsed("positions", read["positions"]).rows \o Parsed("contracts", read["contracts"]).rows

\* An accrual basis is absent, or recognized with decimals in range; a v1
\* document carries none.
BasisAccepted(b) ==
  b.stated => /\ Terms.schema # "v1"
              /\ b.recognized
              /\ b.decimals \in MIN_FRACTION_DECIMALS .. MAX_FRACTION_DECIMALS

EntryParses(e) == e.keys /\ BasisAccepted(e.basis)

\* Securities join on the security alone, contracts on their id and epoch.
EntryKey(e) == IF e.source = "positions" THEN <<e.source, e.name>>
               ELSE <<e.source, e.name, e.epoch>>

RowKey(r) == IF r.source = "positions" THEN <<r.source, r.name>>
             ELSE <<r.source, r.name, Manifest.epoch>>

\* One entry per identity, none of another epoch, none that matches no row.
TermsUsable ==
  /\ Terms.schema \in {"v1", "v2"}
  /\ \A i \in DOMAIN Terms.rows :
       LET e == Terms.rows[i]
       IN /\ EntryParses(e)
          /\ e.source = "contracts" => e.epoch = Manifest.epoch
          /\ \A j \in DOMAIN Terms.rows : EntryKey(Terms.rows[j]) = EntryKey(e) => i = j
          /\ \E r \in ToSet(Rows) : RowKey(r) = EntryKey(e)

\* A row with its entry, or with the reason it has none.
JoinedRow(r) ==
  LET found == IF HasTerms THEN {e \in ToSet(Terms.rows) : EntryKey(e) = RowKey(r)} ELSE {}
  IN [row             |-> r,
      entry           |-> IF found = {} THEN Nothing ELSE CHOOSE e \in found : TRUE,
      unjoined_reason |-> IF found # {} THEN Nothing
                          ELSE IF HasTerms THEN TERMS_ENTRY_NOT_FOUND ELSE NO_TERMS_ARTIFACT]

JoinTerms ==
  /\ todo = <<>> /\ refused = Nothing /\ joined = Nothing
  /\ IF HasTerms => TermsUsable
     THEN joined' = [i \in DOMAIN Rows |-> JoinedRow(Rows[i])] /\ UNCHANGED refused
     ELSE refused' = "TERMS_ARTIFACT_UNUSABLE" /\ UNCHANGED joined
  /\ UNCHANGED <<disk, arriving, todo, read>>

BundleNext == (\E f \in Files : Export(f)) \/ ReadFile \/ JoinTerms
=============================================================================
