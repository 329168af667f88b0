--------------------------- MODULE MCAssetRegister ---------------------------
(* Small instances of AssetRegister for TLC.                                  *)
EXTENDS AssetRegister

CONSTANTS employee1, asset1, asset2, site1, tag1, request1, request2

\* The first asset goes to the employee, whether or not a site is sent along, to
\* the site or to nobody; the second competes with it for the only tag.
RegisterForms ==
  [on : {asset1}, tag : {tag1}, status : {"active", "retired"},
   emp : {employee1, None}, site : {site1}]
  \union [on : {asset2}, tag : {tag1}, status : {"active"}, emp : {None}, site : {None}]

=============================================================================
