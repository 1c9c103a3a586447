SPECIFICATION Spec
CONSTANTS
  Kinds = {"shop", "products", "resellers", "manual", "codes"}
  Searches = {"", "abc"}
  Choices = {"", "c"}
  PagesOf <- Pages
  MaxAsked = 2
  MaxPage = 3
INVARIANTS RowsMatchFilters NoPageBeyondLast
